---- MODULE Spec2Model ----
(***************************************************************************)
(* Release workflow orchestrator of DistroKid-Release-Packer               *)
(* (scripts/orchestrator.py, scripts/retry_utils.py,                       *)
(* scripts/rename_audio_files.py).                                         *)
(*                                                                         *)
(* Spec      : one call of run_release_workflow, step by step.             *)
(* LockSpec  : several processes calling acquire_workflow_lock /           *)
(*             release_workflow_lock on one release directory, one file    *)
(*             system operation per step, no lock file growing stale.      *)
(* StaleLockSpec : the same with lock files older than 3600 seconds.       *)
(***************************************************************************)
EXTENDS Integers, Sequences, FiniteSets, TLC

None == "None"

(***************************************************************************)
(* Bounds and program constants                                            *)
(***************************************************************************)
\* largest max_retries value a configuration carries in the model
MaxRetriesBound == 3
\* number of processes contending for the lock in LockSpec
NumProcs == 3
\* number of acquire calls each process makes in LockSpec
MaxCalls == 2

\* config.get("max_retries", 3)
DefaultMaxRetries == 3
\* check_disk_space(release_dir, required_mb=500, ...)
InitialRequiredMB == 500
\* if lock_age > 3600
StaleAge == 3600

\* free space (MB) the file system may report to a check
FreeChoices == {499, 500}
\* total size (MB) of the source audio files
SizeChoices == {1, 1000}
\* age (seconds) of a lock file found at workflow start
AgeChoices == {0, 3600, 3601}
\* what source_audio_dir holds
SourceStates == {"missing", "empty", "mp3"}

(***************************************************************************)
(* Exceptions: the classes the workflow meets, with their base class.     *)
(* IOError is an alias of OSError.  typer.Exit is click.exceptions.Exit,   *)
(* a RuntimeError; sys.exit raises SystemExit, which is no Exception.      *)
(* json.JSONDecodeError and UnicodeDecodeError are ValueErrors.            *)
(***************************************************************************)
ExcParent ==
  [ FileNotFoundError |-> "OSError",
    FileExistsError   |-> "OSError",
    PermissionError   |-> "OSError",
    OSError           |-> "Exception",
    RuntimeError      |-> "Exception",
    ValueError        |-> "Exception",
    JSONDecodeError   |-> "ValueError",
    UnicodeDecodeError |-> "ValueError",
    AttributeError    |-> "Exception",
    TypeError         |-> "Exception",
    ImportError       |-> "Exception",
    NonRetryableError |-> "Exception",
    Exit              |-> "RuntimeError",
    SystemExit        |-> "BaseException",
    Exception         |-> "BaseException" ]

RECURSIVE issubclass(_, _)
issubclass(t, base) ==
  IF t = base THEN TRUE
  ELSE IF t \notin DOMAIN ExcParent THEN FALSE
  ELSE issubclass(ExcParent[t], base)

\* retryable_exceptions=(IOError, OSError, PermissionError) of the rename step
RenameRetryable == {"OSError", "PermissionError"}

(***************************************************************************)
(* retry_utils.RetryContext.__exit__: the new attempt counter and whether  *)
(* the exception is suppressed.                                            *)
(***************************************************************************)
RetryContextExit(exc_type, attempt, max_attempts, retryable_exceptions) ==
  IF exc_type = None
  THEN [attempt |-> attempt, suppress |-> FALSE]
  ELSE IF \E r \in retryable_exceptions : issubclass(exc_type, r)
       THEN IF attempt + 1 >= max_attempts
            THEN [attempt |-> attempt + 1, suppress |-> FALSE]
            ELSE [attempt |-> attempt + 1, suppress |-> TRUE]
       ELSE [attempt |-> attempt, suppress |-> FALSE]

(***************************************************************************)
(* rename_audio_files: the exception it raises, or None.                   *)
(***************************************************************************)
rename_audio_files(src, dest_exists, overwrite, io_error) ==
  IF src = "missing" THEN "FileNotFoundError"
  ELSE IF src = "empty" THEN None
  ELSE IF dest_exists /\ ~overwrite THEN "FileExistsError"
  ELSE IF io_error THEN "PermissionError"
  ELSE None

\* mutant: the comparison is dropped, the check never raises
check_disk_space_never_raises(free_tenths, required_tenths) == TRUE

(***************************************************************************)
(* check_disk_space, in tenths of a MB: TRUE when it returns, FALSE when   *)
(* it raises RuntimeError.                                                 *)
(***************************************************************************)
check_disk_space(free_tenths, required_tenths) ==
  ~(free_tenths < required_tenths)

\* required_mb = (total_size / (1024 * 1024)) * 1.1, in tenths of a MB
RequiredTenths(total_size_mb) == total_size_mb * 11

(***************************************************************************)
(* acquire_workflow_lock when no other process interferes: whether it      *)
(* returns the lock path (ok) and whether it reclaimed a stale lock.       *)
(***************************************************************************)
\* mutant: a lock aged exactly the threshold counts as stale
IsStale_at_threshold(lock_age) == lock_age >= StaleAge

\* if lock_age > 3600
IsStale(lock_age) == lock_age > StaleAge

acquire_workflow_lock(exists, lock_age) ==
  IF ~exists THEN [ok |-> TRUE, reclaimed |-> FALSE]
  ELSE IF IsStale(lock_age) THEN [ok |-> TRUE, reclaimed |-> TRUE]
  ELSE [ok |-> FALSE, reclaimed |-> FALSE]

\* mutant: the lock file is never deleted
release_workflow_lock_keeps_file(lock_file, exists) == exists

\* mutant: the file is deleted without looking at lock_file
release_workflow_lock_any_handle(lock_file, exists) == FALSE

\* release_workflow_lock: whether the lock file exists afterwards
release_workflow_lock(lock_file, exists) ==
  IF lock_file /= None /\ exists THEN FALSE ELSE exists

\* mutant: strict_mode is not consulted after a failure
StepFailurePolicy_always_continues(strict_mode) == "continue"

\* mutant: every failure ends the run, whatever strict_mode says
StepFailurePolicy_always_returns(strict_mode) == "return_false"

\* mutant: strict_mode read the wrong way round
StepFailurePolicy_inverted(strict_mode) ==
  IF strict_mode THEN "continue" ELSE "return_false"

\* if config.get("strict_mode", False): return False
StepFailurePolicy(strict_mode) ==
  IF strict_mode THEN "return_false" ELSE "continue"

\* mutant: the run reports failure whatever happened
FinalResult_always_false(passed, errors) == "false"

\* return compliance_passed and len(workflow_errors) == 0
FinalResult(passed, errors) ==
  IF passed /\ Len(errors) = 0 THEN "true" ELSE "false"

(***************************************************************************)
(* State                                                                   *)
(***************************************************************************)
VARIABLES
  config,            \* the configuration run_release_workflow received
  pc,                \* position of run_release_workflow
  result,            \* "running", "true", "false" (returned) or "raise"
  lock_file,         \* local lock_file: None or "path"
  workflow_errors,   \* local list workflow_errors
  compliance_passed, \* local compliance_passed
  lockExists,        \* <release_dir>/.workflow.lock exists
  lockAge,           \* seconds since its modification time
  lockOwner,         \* who created it
  audioExists,       \* <release_dir>/Audio/<Artist> - <Title>.mp3 exists
  metadataWritten,   \* this run wrote the manifest under <release_dir>/Metadata
  calls,             \* functions invoked by this run, in order
  steps,             \* step blocks entered by this run, in order
  failedSteps,       \* steps whose function raised or reported invalid
  raisedIn,          \* the call whose exception left run_release_workflow
  initialFree,       \* free MB seen by the initial disk-space check
  lockSeen,          \* lock file state found by acquire_workflow_lock
  recheck,           \* rename step's disk re-check: None (not made), "short"
                     \* (free space below 110% of the source size) or "enough"
  renameOutcomes,    \* outcome of every invocation of rename_audio_files
  renameStatus,      \* "none", "succeeded" (line 675) or "failed" (except block)
  complianceResult,  \* "not_run", "valid", "invalid" or "raised"
  fixCalls,          \* invocations of fix_clipping_ffmpeg
  lpc,               \* LockSpec: position of each process
  lheld,             \* LockSpec: the process holds a lock path it acquired
  lresult,           \* LockSpec: outcome of the process's last acquire call
  lcalls             \* LockSpec: acquire calls the process has started

lockVars  == << lockExists, lockAge, lockOwner >>
procVars  == << lpc, lheld, lresult, lcalls >>
ghostVars == << failedSteps, raisedIn, initialFree, lockSeen, recheck,
                renameOutcomes, renameStatus, complianceResult, fixCalls >>

(***************************************************************************)
(* State of the component specifications (each models one function in      *)
(* finer grain than Spec; a component that is not under study keeps its    *)
(* idle values).                                                           *)
(***************************************************************************)
VARIABLES
  retryForm,         \* RetrySpec: "decorator" or "context"
  retryMax,          \* RetrySpec: max_attempts
  retryOn,           \* RetrySpec: retryable_exceptions
  retryAttempt,      \* RetrySpec: loop variable attempt / self.attempt
  retryCounted,      \* RetrySpec: failures handled as retryable
  retrySleeps,       \* RetrySpec: time.sleep calls
  retryRaised,       \* RetrySpec: exceptions the operation raised
  retryOutcome,      \* RetrySpec: what the caller gets
  pathPresent,       \* PathSpec: path fields the config defines
  pathUnsafe,        \* PathSpec: those whose value has a '..' part
  pathAbsolute,      \* PathSpec: release_dir is an absolute path
  pathPc,            \* PathSpec: position of run_release_workflow
  pathOps,           \* PathSpec: calls that received a configured path, in order
  pathResult,        \* PathSpec: "running", "ValueError" or "passed"
  rnSourceExists,    \* RenameSpec: source_dir exists
  rnFiles,           \* RenameSpec: audio_files: the glob result
  rnOverwrite,       \* RenameSpec: overwrite
  rnDest,            \* RenameSpec: content of dest_file, per suffix
  rnDestBefore,      \* RenameSpec: rnDest when the call began
  rnTemp,            \* RenameSpec: content of temp_file, per suffix
  rnIndex,           \* RenameSpec: position of the for loop
  rnPc,              \* RenameSpec: position inside the call
  rnResult,          \* RenameSpec: "running", "returned" or the exception
  mdArgs,            \* MetadataSpec: artist, title, metadata of the calls
  mdDir,             \* MetadataSpec: files of output_dir: name -> content
  mdNow,             \* MetadataSpec: datetime.now()
  mdPc,              \* MetadataSpec: position inside the call
  mdContent,         \* MetadataSpec: release_metadata of the call
  mdHistory,         \* MetadataSpec: finished calls: result, files left
  exCaller,          \* ExitSpec: the entry point
  exTotal,           \* ExitSpec: number of release configs
  exContinue,        \* ExitSpec: continue_on_error
  exOutcomes,        \* ExitSpec: what each run_release_workflow did
  exStatus,          \* ExitSpec: results[...]["status"] of process_batch
  exPc,              \* ExitSpec: position of the entry point
  exCode,            \* ExitSpec: exit code of the process
  ldDefaults,        \* LoadSpec: the artist-defaults.json file
  ldRelease,         \* LoadSpec: the release config file
  ldValidate,        \* LoadSpec: the validate argument
  ldValidator,       \* LoadSpec: jsonschema and schema files at hand
  ldVerdicts,        \* LoadSpec: what the schemas say of the two files
  ldUserSettings,    \* LoadSpec: user_settings
  ldDefaultsValid,   \* LoadSpec: is_valid of validate_artist_defaults
  ldReleaseConfig,   \* LoadSpec: release_config
  ldPc,              \* LoadSpec: position in load_config
  ldResult,          \* LoadSpec: what load_config raised or returned
  vcConfig,          \* ValidateSpec: the config argument
  vcDirsExist,       \* ValidateSpec: whether the directories the config names exist
  vcErrors,          \* ValidateSpec: errors
  vcWarnings,        \* ValidateSpec: warnings
  vcPc,              \* ValidateSpec: position in validate_config
  vcResult,          \* ValidateSpec: what validate_config raised or returned
  psPath,            \* SafetySpec: path_str
  psBase,            \* SafetySpec: base_dir
  psAbs,             \* SafetySpec: abs_path
  psPc,              \* SafetySpec: position in validate_path_safety
  psResult,          \* SafetySpec: what validate_path_safety raised or returned
  cfConfig,          \* FrameSpec: the config object: its keys and its id3_metadata
  cfVersion,         \* FrameSpec: whether version_info was extracted
  cfAudio,           \* FrameSpec: whether the tagged mp3 exists
  cfPc,              \* FrameSpec: position in run_release_workflow
  cfRuns,            \* FrameSpec: calls of run_release_workflow with the object
  cfTagged,          \* FrameSpec: metadata given to tag_audio_file, per call
  snName,            \* SanitizeSpec: name
  snSanitized,       \* SanitizeSpec: sanitized
  snPc               \* SanitizeSpec: position in sanitize_filename

retryVars == << retryForm, retryMax, retryOn, retryAttempt, retryCounted,
    retrySleeps, retryRaised, retryOutcome >>
pathVars == << pathPresent, pathUnsafe, pathAbsolute, pathPc, pathOps,
    pathResult >>
renameVars == << rnSourceExists, rnFiles, rnOverwrite, rnDest, rnDestBefore,
    rnTemp, rnIndex, rnPc, rnResult >>
metaVars == << mdArgs, mdDir, mdNow, mdPc, mdContent, mdHistory >>
exitVars == << exCaller, exTotal, exContinue, exOutcomes, exStatus, exPc,
    exCode >>
loadVars == << ldDefaults, ldRelease, ldValidate, ldValidator, ldVerdicts,
    ldUserSettings, ldDefaultsValid, ldReleaseConfig, ldPc, ldResult >>
validateVars == << vcConfig, vcDirsExist, vcErrors, vcWarnings, vcPc, vcResult >>
safetyVars == << psPath, psBase, psAbs, psPc, psResult >>
frameVars == << cfConfig, cfVersion, cfAudio, cfPc, cfRuns, cfTagged >>
sanitizeVars == << snName, snSanitized, snPc >>

unitVars == << retryVars, pathVars, renameVars, metaVars, exitVars, loadVars,
    validateVars, safetyVars, frameVars, sanitizeVars >>

\* no retry helper is in use
RetryIdle ==
  /\ retryForm = None
  /\ retryMax = 1
  /\ retryOn = {}
  /\ retryAttempt = 0
  /\ retryCounted = 0
  /\ retrySleeps = 0
  /\ retryRaised = << >>
  /\ retryOutcome = "idle"

\* no configured path is being followed
PathIdle ==
  /\ pathPresent = {}
  /\ pathUnsafe = {}
  /\ pathAbsolute = FALSE
  /\ pathPc = "none"
  /\ pathOps = << >>
  /\ pathResult = "idle"

\* rename_audio_files is not running on its own
RenameIdle ==
  /\ rnSourceExists = FALSE
  /\ rnFiles = << >>
  /\ rnOverwrite = FALSE
  /\ rnDest = [e \in {} |-> None]
  /\ rnDestBefore = [e \in {} |-> None]
  /\ rnTemp = [e \in {} |-> None]
  /\ rnIndex = 0
  /\ rnPc = "none"
  /\ rnResult = "idle"

\* save_release_metadata is not running on its own
MetadataIdle ==
  /\ mdArgs = None
  /\ mdDir = << >>
  /\ mdNow = 0
  /\ mdPc = "none"
  /\ mdContent = << >>
  /\ mdHistory = << >>

\* no command line entry point is running
ExitIdle ==
  /\ exCaller = None
  /\ exTotal = 0
  /\ exContinue = TRUE
  /\ exOutcomes = << >>
  /\ exStatus = << >>
  /\ exPc = "none"
  /\ exCode = 0

\* no configuration is being loaded
LoadIdle ==
  /\ ldDefaults = None
  /\ ldRelease = None
  /\ ldValidate = FALSE
  /\ ldValidator = None
  /\ ldVerdicts = None
  /\ ldUserSettings = None
  /\ ldDefaultsValid = TRUE
  /\ ldReleaseConfig = None
  /\ ldPc = "none"
  /\ ldResult = None

\* validate_config is not being called on its own
ValidateIdle ==
  /\ vcConfig = None
  /\ vcDirsExist = FALSE
  /\ vcErrors = << >>
  /\ vcWarnings = << >>
  /\ vcPc = "none"
  /\ vcResult = None

\* validate_path_safety is not being called on its own
SafetyIdle ==
  /\ psPath = None
  /\ psBase = None
  /\ psAbs = None
  /\ psPc = "none"
  /\ psResult = None

\* the metadata defaults of steps 5 and 7 are not under study
FrameIdle ==
  /\ cfConfig = None
  /\ cfVersion = FALSE
  /\ cfAudio = FALSE
  /\ cfPc = "none"
  /\ cfRuns = 0
  /\ cfTagged = << >>

\* sanitize_filename is not being called on its own
SanitizeIdle ==
  /\ snName = << >>
  /\ snSanitized = << >>
  /\ snPc = "none"

\* the components other than RetrySpec
unitsBesidesRetry == << pathVars, renameVars, metaVars, exitVars, loadVars, validateVars,
    safetyVars, frameVars, sanitizeVars >>

UnitsIdleBesidesRetry ==
  /\ PathIdle
  /\ RenameIdle
  /\ MetadataIdle
  /\ ExitIdle
  /\ LoadIdle
  /\ ValidateIdle
  /\ SafetyIdle
  /\ FrameIdle
  /\ SanitizeIdle

\* the components other than PathSpec
unitsBesidesPath == << retryVars, renameVars, metaVars, exitVars, loadVars,
    validateVars, safetyVars, frameVars, sanitizeVars >>

UnitsIdleBesidesPath ==
  /\ RetryIdle
  /\ RenameIdle
  /\ MetadataIdle
  /\ ExitIdle
  /\ LoadIdle
  /\ ValidateIdle
  /\ SafetyIdle
  /\ FrameIdle
  /\ SanitizeIdle

\* the components other than RenameSpec
unitsBesidesRename == << retryVars, pathVars, metaVars, exitVars, loadVars, validateVars,
    safetyVars, frameVars, sanitizeVars >>

UnitsIdleBesidesRename ==
  /\ RetryIdle
  /\ PathIdle
  /\ MetadataIdle
  /\ ExitIdle
  /\ LoadIdle
  /\ ValidateIdle
  /\ SafetyIdle
  /\ FrameIdle
  /\ SanitizeIdle

\* the components other than MetadataSpec
unitsBesidesMetadata == << retryVars, pathVars, renameVars, exitVars, loadVars,
    validateVars, safetyVars, frameVars, sanitizeVars >>

UnitsIdleBesidesMetadata ==
  /\ RetryIdle
  /\ PathIdle
  /\ RenameIdle
  /\ ExitIdle
  /\ LoadIdle
  /\ ValidateIdle
  /\ SafetyIdle
  /\ FrameIdle
  /\ SanitizeIdle

\* the components other than ExitSpec
unitsBesidesExit == << retryVars, pathVars, renameVars, metaVars, loadVars,
    validateVars, safetyVars, frameVars, sanitizeVars >>

UnitsIdleBesidesExit ==
  /\ RetryIdle
  /\ PathIdle
  /\ RenameIdle
  /\ MetadataIdle
  /\ LoadIdle
  /\ ValidateIdle
  /\ SafetyIdle
  /\ FrameIdle
  /\ SanitizeIdle

\* the components other than LoadSpec
unitsBesidesLoad == << retryVars, pathVars, renameVars, metaVars, exitVars,
    validateVars, safetyVars, frameVars, sanitizeVars >>

UnitsIdleBesidesLoad ==
  /\ RetryIdle
  /\ PathIdle
  /\ RenameIdle
  /\ MetadataIdle
  /\ ExitIdle
  /\ ValidateIdle
  /\ SafetyIdle
  /\ FrameIdle
  /\ SanitizeIdle

\* the components other than ValidateSpec
unitsBesidesValidate == << retryVars, pathVars, renameVars, metaVars, exitVars, loadVars,
    safetyVars, frameVars, sanitizeVars >>

UnitsIdleBesidesValidate ==
  /\ RetryIdle
  /\ PathIdle
  /\ RenameIdle
  /\ MetadataIdle
  /\ ExitIdle
  /\ LoadIdle
  /\ SafetyIdle
  /\ FrameIdle
  /\ SanitizeIdle

\* the components other than SafetySpec
unitsBesidesSafety == << retryVars, pathVars, renameVars, metaVars, exitVars, loadVars,
    validateVars, frameVars, sanitizeVars >>

UnitsIdleBesidesSafety ==
  /\ RetryIdle
  /\ PathIdle
  /\ RenameIdle
  /\ MetadataIdle
  /\ ExitIdle
  /\ LoadIdle
  /\ ValidateIdle
  /\ FrameIdle
  /\ SanitizeIdle

\* the components other than FrameSpec
unitsBesidesFrame == << retryVars, pathVars, renameVars, metaVars, exitVars, loadVars,
    validateVars, safetyVars, sanitizeVars >>

UnitsIdleBesidesFrame ==
  /\ RetryIdle
  /\ PathIdle
  /\ RenameIdle
  /\ MetadataIdle
  /\ ExitIdle
  /\ LoadIdle
  /\ ValidateIdle
  /\ SafetyIdle
  /\ SanitizeIdle

\* the components other than SanitizeSpec
unitsBesidesSanitize == << retryVars, pathVars, renameVars, metaVars, exitVars, loadVars,
    validateVars, safetyVars, frameVars >>

UnitsIdleBesidesSanitize ==
  /\ RetryIdle
  /\ PathIdle
  /\ RenameIdle
  /\ MetadataIdle
  /\ ExitIdle
  /\ LoadIdle
  /\ ValidateIdle
  /\ SafetyIdle
  /\ FrameIdle

UnitsIdle ==
  /\ RetryIdle
  /\ PathIdle
  /\ RenameIdle
  /\ MetadataIdle
  /\ ExitIdle
  /\ LoadIdle
  /\ ValidateIdle
  /\ SafetyIdle
  /\ FrameIdle
  /\ SanitizeIdle

vars ==
  << config, pc, result, lock_file, workflow_errors, compliance_passed,
     lockExists, lockAge, lockOwner, audioExists, metadataWritten, calls,
     steps, failedSteps, raisedIn, initialFree, lockSeen, recheck,
     renameOutcomes, renameStatus, complianceResult, fixCalls,
     lpc, lheld, lresult, lcalls, unitVars >>

Procs == 1 .. NumProcs

\* initialFree before the initial disk-space check
NotChecked == 0 - 1
\* lockSeen before acquire_workflow_lock
NotSeen == [made |-> FALSE, exists |-> FALSE, age |-> 0]

Configs ==
  [ strict_mode         : BOOLEAN,
    suno_url            : BOOLEAN,
    suno_metadata_file  : BOOLEAN,
    rename_audio        : BOOLEAN,
    organize_stems      : BOOLEAN,
    tag_stems           : BOOLEAN,
    tag_audio           : BOOLEAN,
    validate_cover      : BOOLEAN,
    validate_compliance : BOOLEAN,
    auto_fix_clipping   : BOOLEAN,
    max_retries         : 1 .. MaxRetriesBound ]

\* lock file states a workflow can find: none, or one left by another run
LockEnvs ==
  { [exists |-> FALSE, age |-> 0] } \cup
  { [exists |-> TRUE, age |-> a] : a \in AgeChoices }

WorkflowInit ==
  /\ config \in Configs
  /\ pc = "validate_config"
  /\ result = "running"
  /\ lock_file = None
  /\ workflow_errors = << >>
  /\ compliance_passed = TRUE
  /\ \E e \in LockEnvs :
       /\ lockExists = e.exists
       /\ lockAge = e.age
       /\ lockOwner = IF e.exists THEN "other" ELSE None
  /\ audioExists \in BOOLEAN
  /\ metadataWritten = FALSE
  /\ calls = << >>
  /\ steps = << >>
  /\ failedSteps = {}
  /\ raisedIn = None
  /\ initialFree = NotChecked
  /\ lockSeen = NotSeen
  /\ recheck = None
  /\ renameOutcomes = << >>
  /\ renameStatus = "none"
  /\ complianceResult = "not_run"
  /\ fixCalls = 0

ProcsIdle ==
  /\ lpc = [p \in Procs |-> "idle"]
  /\ lheld = [p \in Procs |-> FALSE]
  /\ lresult = [p \in Procs |-> None]
  /\ lcalls = [p \in Procs |-> 0]

Init == WorkflowInit /\ ProcsIdle /\ UnitsIdle

(***************************************************************************)
(* run_release_workflow                                                    *)
(***************************************************************************)
\* an exception leaves a step's code inside the try ... finally
Raise(call) ==
  /\ pc' = "finally"
  /\ result' = "raise"
  /\ raisedIn' = call

\* the end of a step's except block (or of a failed validation)
Fail(next) ==
  IF StepFailurePolicy(config.strict_mode) = "return_false"
  THEN pc' = "finally" /\ result' = "false"
  ELSE pc' = next /\ UNCHANGED result

Goto(next) == pc' = next /\ UNCHANGED result

\* validate_config(config)
ValidateConfig ==
  /\ pc = "validate_config"
  /\ calls' = Append(calls, "validate_config")
  /\ \E ok \in BOOLEAN :
       IF ok
       THEN Goto("validate_dependencies") /\ UNCHANGED raisedIn
       ELSE pc' = "done" /\ result' = "raise" /\ raisedIn' = "validate_config"
  /\ UNCHANGED << config, lock_file, workflow_errors, compliance_passed,
                  lockVars, audioExists, metadataWritten, steps, failedSteps,
                  initialFree, lockSeen, recheck, renameOutcomes, renameStatus,
                  complianceResult, fixCalls, procVars, unitVars >>

\* validate_dependencies()
ValidateDependencies ==
  /\ pc = "validate_dependencies"
  /\ calls' = Append(calls, "validate_dependencies")
  /\ \E ok \in BOOLEAN :
       IF ok
       THEN Goto("validate_path_safety") /\ UNCHANGED raisedIn
       ELSE /\ pc' = "done"
            /\ result' = "raise"
            /\ raisedIn' = "validate_dependencies"
  /\ UNCHANGED << config, lock_file, workflow_errors, compliance_passed,
                  lockVars, audioExists, metadataWritten, steps, failedSteps,
                  initialFree, lockSeen, recheck, renameOutcomes, renameStatus,
                  complianceResult, fixCalls, procVars, unitVars >>

\* the paths validated, in the order of the code
PathFields == << "release_dir", "source_audio_dir", "source_stems_dir" >>

\* validate_path_safety on release_dir, source_audio_dir, source_stems_dir:
\* bad is the number of the first unsafe path, 0 when all are safe
ValidatePaths ==
  /\ pc = "validate_path_safety"
  /\ \E bad \in 0 .. Len(PathFields) :
       LET n == IF bad = 0 THEN Len(PathFields) ELSE bad
       IN  /\ calls' = calls \o [i \in 1 .. n |-> "validate_path_safety"]
           /\ IF bad = 0
              THEN Goto("acquire_workflow_lock") /\ UNCHANGED raisedIn
              ELSE /\ pc' = "done"
                   /\ result' = "raise"
                   /\ raisedIn' = "validate_path_safety"
  /\ UNCHANGED << config, lock_file, workflow_errors, compliance_passed,
                  lockVars, audioExists, metadataWritten, steps, failedSteps,
                  initialFree, lockSeen, recheck, renameOutcomes, renameStatus,
                  complianceResult, fixCalls, procVars, unitVars >>

\* lock_file = acquire_workflow_lock(release_dir), inside the try
AcquireLock ==
  /\ pc = "acquire_workflow_lock"
  /\ calls' = Append(calls, "acquire_workflow_lock")
  /\ lockSeen' = [made |-> TRUE, exists |-> lockExists, age |-> lockAge]
  /\ IF acquire_workflow_lock(lockExists, lockAge).ok
     THEN /\ lock_file' = "path"
          /\ lockExists' = TRUE
          /\ lockAge' = 0
          /\ lockOwner' = "self"
          /\ Goto("check_disk_space")
          /\ UNCHANGED raisedIn
     ELSE /\ Raise("acquire_workflow_lock")
          /\ UNCHANGED << lock_file, lockVars >>
  /\ UNCHANGED << config, workflow_errors, compliance_passed, audioExists,
                  metadataWritten, steps, failedSteps, initialFree, recheck,
                  renameOutcomes, renameStatus, complianceResult, fixCalls,
                  procVars, unitVars >>

\* check_disk_space(release_dir, required_mb=500, ...)
InitialDiskCheck ==
  /\ pc = "check_disk_space"
  /\ calls' = Append(calls, "check_disk_space")
  /\ \E free \in FreeChoices :
       /\ initialFree' = free
       /\ IF check_disk_space(free * 10, InitialRequiredMB * 10)
          THEN Goto("extract_version") /\ UNCHANGED raisedIn
          ELSE Raise("check_disk_space")
  /\ UNCHANGED << config, lock_file, workflow_errors, compliance_passed,
                  lockVars, audioExists, metadataWritten, steps, failedSteps,
                  lockSeen, recheck, renameOutcomes, renameStatus,
                  complianceResult, fixCalls, procVars, unitVars >>

\* Step 1: extract_suno_version_from_url, outside any except block, or
\* else extract_from_metadata_file, which returns None on every error
ExtractVersion ==
  /\ pc = "extract_version"
  /\ IF config.suno_url
     THEN /\ steps' = Append(steps, "ExtractVersion")
          /\ calls' = Append(calls, "extract_suno_version_from_url")
          /\ \E raises \in BOOLEAN :
               IF raises
               THEN Raise("extract_suno_version_from_url")
               ELSE Goto("rename_audio") /\ UNCHANGED raisedIn
     ELSE IF config.suno_metadata_file
     THEN /\ steps' = Append(steps, "ExtractVersion")
          /\ calls' = Append(calls, "extract_from_metadata_file")
          /\ Goto("rename_audio")
          /\ UNCHANGED raisedIn
     ELSE Goto("rename_audio") /\ UNCHANGED << steps, calls, raisedIn >>
  /\ UNCHANGED << config, lock_file, workflow_errors, compliance_passed,
                  lockVars, audioExists, metadataWritten, failedSteps,
                  initialFree, lockSeen, recheck, renameOutcomes, renameStatus,
                  complianceResult, fixCalls, procVars, unitVars >>

\* Step 2: disk re-check, then rename_audio_files inside RetryContext,
\* all inside the step's try ... except Exception
RenameAudio ==
  /\ pc = "rename_audio"
  /\ IF ~config.rename_audio
     THEN /\ Goto("organize_stems")
          /\ UNCHANGED << steps, calls, failedSteps, recheck, renameOutcomes,
                          renameStatus, audioExists >>
     ELSE
       \E src \in SourceStates, size \in SizeChoices, free \in FreeChoices,
          overwrite \in BOOLEAN, io_error \in BOOLEAN :
         LET required == IF src = "mp3" THEN RequiredTenths(size) ELSE 0
             checked  == src /= "missing" /\ required > 0
             diskOk   == ~checked \/ check_disk_space(free * 10, required)
             exc      == rename_audio_files(src, audioExists, overwrite, io_error)
             ctx      == RetryContextExit(exc, 0, config.max_retries,
                                          RenameRetryable)
             escaped  == exc /= None /\ ~ctx.suppress
         IN  /\ steps' = Append(steps, "RenameAudio")
             /\ recheck' = IF ~checked THEN recheck
                           ELSE IF free * 10 < size * 11 THEN "short"
                           ELSE "enough"
             /\ IF ~diskOk
                THEN /\ calls' = Append(calls, "check_disk_space")
                     /\ failedSteps' = failedSteps \cup {"RenameAudio"}
                     /\ renameStatus' = "failed"
                     /\ Fail("organize_stems")
                     /\ UNCHANGED << renameOutcomes, audioExists >>
                ELSE /\ calls' = calls
                                 \o (IF checked THEN << "check_disk_space" >>
                                     ELSE << >>)
                                 \o << "rename_audio_files" >>
                     /\ renameOutcomes' = Append(renameOutcomes, exc)
                     /\ audioExists' = (audioExists \/ (src = "mp3" /\ exc = None))
                     /\ failedSteps' = IF exc /= None
                                       THEN failedSteps \cup {"RenameAudio"}
                                       ELSE failedSteps
                     /\ IF escaped
                        THEN renameStatus' = "failed" /\ Fail("organize_stems")
                        ELSE renameStatus' = "succeeded" /\ Goto("organize_stems")
  /\ UNCHANGED << config, lock_file, workflow_errors, compliance_passed,
                  lockVars, metadataWritten, raisedIn, initialFree, lockSeen,
                  complianceResult, fixCalls, procVars, unitVars >>

\* Step 3: organize_stems inside try ... except Exception
OrganizeStems ==
  /\ pc = "organize_stems"
  /\ IF ~config.organize_stems
     THEN Goto("tag_stems") /\ UNCHANGED << steps, calls, failedSteps >>
     ELSE /\ steps' = Append(steps, "OrganizeStems")
          /\ calls' = Append(calls, "organize_stems")
          /\ \E raises \in BOOLEAN :
               IF raises
               THEN /\ failedSteps' = failedSteps \cup {"OrganizeStems"}
                    /\ Fail("tag_stems")
               ELSE Goto("tag_stems") /\ UNCHANGED failedSteps
  /\ UNCHANGED << config, lock_file, workflow_errors, compliance_passed,
                  lockVars, audioExists, metadataWritten, raisedIn,
                  initialFree, lockSeen, recheck, renameOutcomes, renameStatus,
                  complianceResult, fixCalls, procVars, unitVars >>

\* Step 4: batch_tag_stems inside try ... except Exception
TagStems ==
  /\ pc = "tag_stems"
  /\ IF ~config.tag_stems
     THEN Goto("tag_audio") /\ UNCHANGED << steps, calls, failedSteps >>
     ELSE /\ steps' = Append(steps, "TagStems")
          /\ calls' = Append(calls, "batch_tag_stems")
          /\ \E raises \in BOOLEAN :
               IF raises
               THEN /\ failedSteps' = failedSteps \cup {"TagStems"}
                    /\ Fail("tag_audio")
               ELSE Goto("tag_audio") /\ UNCHANGED failedSteps
  /\ UNCHANGED << config, lock_file, workflow_errors, compliance_passed,
                  lockVars, audioExists, metadataWritten, raisedIn,
                  initialFree, lockSeen, recheck, renameOutcomes, renameStatus,
                  complianceResult, fixCalls, procVars, unitVars >>

\* Step 5: tag_audio_file inside try ... except Exception, skipped when the
\* audio file does not exist
TagAudio ==
  /\ pc = "tag_audio"
  /\ IF ~config.tag_audio
     THEN Goto("validate_cover") /\ UNCHANGED << steps, calls, failedSteps >>
     ELSE /\ steps' = Append(steps, "TagAudio")
          /\ IF ~audioExists
             THEN Goto("validate_cover") /\ UNCHANGED << calls, failedSteps >>
             ELSE /\ calls' = Append(calls, "tag_audio_file")
                  /\ \E raises \in BOOLEAN :
                       IF raises
                       THEN /\ failedSteps' = failedSteps \cup {"TagAudio"}
                            /\ Fail("validate_cover")
                       ELSE Goto("validate_cover") /\ UNCHANGED failedSteps
  /\ UNCHANGED << config, lock_file, workflow_errors, compliance_passed,
                  lockVars, audioExists, metadataWritten, raisedIn,
                  initialFree, lockSeen, recheck, renameOutcomes, renameStatus,
                  complianceResult, fixCalls, procVars, unitVars >>

\* Step 6: validate_cover_art on the cover file found, no except block;
\* validate_cover_art reports every error in its result
ValidateCover ==
  /\ pc = "validate_cover"
  /\ IF ~config.validate_cover
     THEN Goto("validate_compliance") /\ UNCHANGED << steps, calls, failedSteps >>
     ELSE /\ steps' = Append(steps, "ValidateCover")
          /\ \E found \in BOOLEAN, valid \in BOOLEAN :
               IF ~found
               THEN Goto("validate_compliance") /\ UNCHANGED << calls, failedSteps >>
               ELSE /\ calls' = Append(calls, "validate_cover_art")
                    /\ IF valid
                       THEN Goto("validate_compliance") /\ UNCHANGED failedSteps
                       ELSE /\ failedSteps' = failedSteps \cup {"ValidateCover"}
                            /\ Fail("validate_compliance")
  /\ UNCHANGED << config, lock_file, workflow_errors, compliance_passed,
                  lockVars, audioExists, metadataWritten, raisedIn,
                  initialFree, lockSeen, recheck, renameOutcomes, renameStatus,
                  complianceResult, fixCalls, procVars, unitVars >>

\* outcomes of the preliminary validate_audio_file call
AudioChecks == {"clean", "clipping", "raised"}
\* outcomes of fix_clipping_ffmpeg
FixOutcomes == {"fixed", "raised"}
\* outcomes of full_compliance_check
ComplianceOutcomes == {"valid", "invalid", "raised"}

\* Step 7: validate_audio_file, optional fix_clipping_ffmpeg, then
\* full_compliance_check outside any except block
ValidateCompliance ==
  /\ pc = "validate_compliance"
  /\ IF ~config.validate_compliance
     THEN /\ Goto("save_metadata")
          /\ UNCHANGED << steps, calls, failedSteps, raisedIn, workflow_errors,
                          compliance_passed, complianceResult, fixCalls >>
     ELSE
       /\ steps' = Append(steps, "ValidateCompliance")
       /\ IF ~audioExists
          THEN /\ Goto("save_metadata")
               /\ UNCHANGED << calls, failedSteps, raisedIn, workflow_errors,
                               compliance_passed, complianceResult, fixCalls >>
          ELSE
            \E audio \in AudioChecks, fix \in FixOutcomes,
               full \in ComplianceOutcomes :
              LET fixing   == config.auto_fix_clipping /\ audio = "clipping"
                  fixError == fixing /\ fix = "raised"
                  errs1    == IF fixError
                              THEN Append(workflow_errors, "Auto-fix clipping failed")
                              ELSE workflow_errors
                  clipped  == audio = "clipping" /\ ~(fixing /\ fix = "fixed")
              IN  \* audio that still clips cannot pass the full check
                  /\ clipped => full /= "valid"
                  /\ fixCalls' = IF fixing THEN fixCalls + 1 ELSE fixCalls
                  /\ calls' = calls \o << "validate_audio_file" >>
                              \o (IF fixing THEN << "fix_clipping_ffmpeg" >>
                                  ELSE << >>)
                              \o << "full_compliance_check" >>
                  /\ complianceResult' = full
                  /\ IF full = "raised"
                     THEN /\ Raise("full_compliance_check")
                          /\ workflow_errors' = errs1
                          /\ failedSteps' = failedSteps \cup {"ValidateCompliance"}
                          /\ UNCHANGED compliance_passed
                     ELSE /\ compliance_passed' = (full = "valid")
                          /\ workflow_errors' =
                               IF full = "invalid"
                               THEN Append(errs1, "Compliance check failed - see errors above")
                               ELSE errs1
                          /\ failedSteps' = IF full = "invalid"
                                            THEN failedSteps \cup {"ValidateCompliance"}
                                            ELSE failedSteps
                          /\ UNCHANGED raisedIn
                          /\ IF full = "invalid"
                             THEN Fail("save_metadata")
                             ELSE Goto("save_metadata")
  /\ UNCHANGED << config, lock_file, lockVars, audioExists, metadataWritten,
                  initialFree, lockSeen, recheck, renameOutcomes, renameStatus,
                  procVars, unitVars >>

\* Step 8: save_release_metadata, outside any except block
SaveMetadata ==
  /\ pc = "save_metadata"
  /\ steps' = Append(steps, "SaveMetadata")
  /\ calls' = Append(calls, "save_release_metadata")
  /\ \E raises \in BOOLEAN :
       IF raises
       THEN Raise("save_release_metadata") /\ UNCHANGED metadataWritten
       ELSE /\ metadataWritten' = TRUE
            /\ Goto("return")
            /\ UNCHANGED raisedIn
  /\ UNCHANGED << config, lock_file, workflow_errors, compliance_passed,
                  lockVars, audioExists, failedSteps, initialFree, lockSeen,
                  recheck, renameOutcomes, renameStatus, complianceResult,
                  fixCalls, procVars, unitVars >>

\* return compliance_passed and len(workflow_errors) == 0
Return ==
  /\ pc = "return"
  /\ result' = FinalResult(compliance_passed, workflow_errors)
  /\ pc' = "finally"
  /\ UNCHANGED << config, lock_file, workflow_errors, compliance_passed,
                  lockVars, audioExists, metadataWritten, calls, steps,
                  ghostVars, procVars, unitVars >>

\* finally: release_workflow_lock(lock_file)
Finally ==
  /\ pc = "finally"
  /\ lockExists' = release_workflow_lock(lock_file, lockExists)
  /\ lockOwner' = IF lockExists' THEN lockOwner ELSE None
  /\ pc' = "done"
  /\ UNCHANGED << config, result, lock_file, workflow_errors,
                  compliance_passed, lockAge, audioExists, metadataWritten,
                  calls, steps, ghostVars, procVars, unitVars >>

Next ==
  \/ ValidateConfig
  \/ ValidateDependencies
  \/ ValidatePaths
  \/ AcquireLock
  \/ InitialDiskCheck
  \/ ExtractVersion
  \/ RenameAudio
  \/ OrganizeStems
  \/ TagStems
  \/ TagAudio
  \/ ValidateCover
  \/ ValidateCompliance
  \/ SaveMetadata
  \/ Return
  \/ Finally

Spec == Init /\ [][Next]_vars

(***************************************************************************)
(* acquire_workflow_lock / release_workflow_lock called by several         *)
(* processes on one release directory, one file system operation per step. *)
(***************************************************************************)
Holders == { p \in Procs : lheld[p] }

\* the workflow of Spec is not running in the lock specifications
WorkflowIdle ==
  /\ config = [ strict_mode |-> FALSE, suno_url |-> FALSE,
                suno_metadata_file |-> FALSE,
                rename_audio |-> TRUE, organize_stems |-> FALSE,
                tag_stems |-> FALSE, tag_audio |-> TRUE,
                validate_cover |-> TRUE, validate_compliance |-> TRUE,
                auto_fix_clipping |-> FALSE, max_retries |-> DefaultMaxRetries ]
  /\ pc = "none"
  /\ result = "running"
  /\ lock_file = None
  /\ workflow_errors = << >>
  /\ compliance_passed = TRUE
  /\ audioExists = FALSE
  /\ metadataWritten = FALSE
  /\ calls = << >>
  /\ steps = << >>
  /\ failedSteps = {}
  /\ raisedIn = None
  /\ initialFree = NotChecked
  /\ lockSeen = NotSeen
  /\ recheck = None
  /\ renameOutcomes = << >>
  /\ renameStatus = "none"
  /\ complianceResult = "not_run"
  /\ fixCalls = 0

workflowVars ==
  << config, pc, result, lock_file, workflow_errors, compliance_passed,
     audioExists, metadataWritten, calls, steps, ghostVars >>

\* the except FileExistsError branch ends in RuntimeError("Workflow already
\* in progress ...")
ConcurrencyError == "RuntimeError"

\* with open(lock_file, 'x'): exclusive creation by process p
CreateLock(p) ==
  /\ lockExists' = TRUE
  /\ lockAge' = 0
  /\ lockOwner' = p
  /\ lheld' = [lheld EXCEPT ![p] = TRUE]
  /\ lresult' = [lresult EXCEPT ![p] = "acquired"]
  /\ lpc' = [lpc EXCEPT ![p] = "holding"]

\* the call of process p ends with exception exc
AcquireRaises(p, exc) ==
  /\ lresult' = [lresult EXCEPT ![p] = exc]
  /\ lpc' = [lpc EXCEPT ![p] = "idle"]
  /\ UNCHANGED << lheld, lockVars >>

\* a process calls acquire_workflow_lock(release_dir)
StartAcquire(p) ==
  /\ lpc[p] = "idle"
  /\ lcalls[p] < MaxCalls
  /\ lcalls' = [lcalls EXCEPT ![p] = @ + 1]
  /\ lpc' = [lpc EXCEPT ![p] = "open"]
  /\ lresult' = [lresult EXCEPT ![p] = None]
  /\ UNCHANGED << lheld, lockVars, workflowVars, unitVars >>

\* first with open(lock_file, 'x')
OpenExclusive(p) ==
  /\ lpc[p] = "open"
  /\ IF ~lockExists
     THEN CreateLock(p)
     ELSE /\ lpc' = [lpc EXCEPT ![p] = "stat"]
          /\ UNCHANGED << lheld, lresult, lockVars >>
  /\ UNCHANGED << lcalls, workflowVars, unitVars >>

\* lock_age = time.time() - lock_file.stat().st_mtime; if lock_age > 3600
StatLock(p) ==
  /\ lpc[p] = "stat"
  /\ IF ~lockExists
     THEN AcquireRaises(p, "FileNotFoundError")
     ELSE IF IsStale(lockAge)
          THEN /\ lpc' = [lpc EXCEPT ![p] = "unlink"]
               /\ UNCHANGED << lheld, lresult, lockVars >>
          ELSE AcquireRaises(p, ConcurrencyError)
  /\ UNCHANGED << lcalls, workflowVars, unitVars >>

\* lock_file.unlink() of a stale lock; FileNotFoundError is caught
UnlinkStale(p) ==
  /\ lpc[p] = "unlink"
  /\ IF ~lockExists
     THEN AcquireRaises(p, ConcurrencyError)
     ELSE /\ lockExists' = FALSE
          /\ lockOwner' = None
          /\ lheld' = lheld
          /\ lpc' = [lpc EXCEPT ![p] = "reopen"]
          /\ UNCHANGED << lresult, lockAge >>
  /\ UNCHANGED << lcalls, workflowVars, unitVars >>

\* second with open(lock_file, 'x'); FileExistsError is caught
ReopenExclusive(p) ==
  /\ lpc[p] = "reopen"
  /\ IF ~lockExists
     THEN CreateLock(p)
     ELSE AcquireRaises(p, ConcurrencyError)
  /\ UNCHANGED << lcalls, workflowVars, unitVars >>

\* release_workflow_lock: if lock_file and lock_file.exists()
ReleaseExists(p) ==
  /\ lpc[p] = "holding"
  /\ IF lockExists
     THEN /\ lpc' = [lpc EXCEPT ![p] = "rel_unlink"]
          /\ UNCHANGED lheld
     ELSE /\ lpc' = [lpc EXCEPT ![p] = "idle"]
          /\ lheld' = [lheld EXCEPT ![p] = FALSE]
  /\ UNCHANGED << lresult, lcalls, lockVars, workflowVars, unitVars >>

\* release_workflow_lock: lock_file.unlink(), which raises FileNotFoundError
\* when the file was deleted after the exists() test
ReleaseUnlink(p) ==
  /\ lpc[p] = "rel_unlink"
  /\ lockExists' = FALSE
  /\ lockOwner' = None
  /\ lheld' = [lheld EXCEPT ![p] = FALSE]
  /\ lpc' = [lpc EXCEPT ![p] = "idle"]
  /\ lresult' = IF lockExists THEN lresult
                ELSE [lresult EXCEPT ![p] = "release FileNotFoundError"]
  /\ UNCHANGED << lcalls, lockAge, workflowVars, unitVars >>

\* time passes while a lock file exists, its age staying at most limit
Tick(limit) ==
  /\ lockExists
  /\ \E a \in AgeChoices :
       /\ a > lockAge
       /\ a <= limit
       /\ lockAge' = a
  /\ UNCHANGED << lockExists, lockOwner, procVars, workflowVars, unitVars >>

LockInit ==
  /\ WorkflowIdle
  /\ ProcsIdle
  /\ UnitsIdle
  /\ lockExists = FALSE
  /\ lockAge = 0
  /\ lockOwner = None

\* no lock file ever exceeds the staleness age
TickFresh == Tick(StaleAge)

LockNext ==
  \/ \E p \in Procs : StartAcquire(p)
  \/ \E p \in Procs : OpenExclusive(p)
  \/ \E p \in Procs : StatLock(p)
  \/ \E p \in Procs : ReleaseExists(p)
  \/ \E p \in Procs : ReleaseUnlink(p)
  \/ TickFresh

LockSpec == LockInit /\ [][LockNext]_vars

\* lock files may grow older than the staleness age
TickStale == Tick(StaleAge + 1)

StaleLockNext ==
  \/ \E p \in Procs : StartAcquire(p)
  \/ \E p \in Procs : OpenExclusive(p)
  \/ \E p \in Procs : StatLock(p)
  \/ \E p \in Procs : UnlinkStale(p)
  \/ \E p \in Procs : ReopenExclusive(p)
  \/ \E p \in Procs : ReleaseExists(p)
  \/ \E p \in Procs : ReleaseUnlink(p)
  \/ TickStale

StaleLockSpec == LockInit /\ [][StaleLockNext]_vars

(***************************************************************************)
(* Properties of run_release_workflow (Spec)                               *)
(***************************************************************************)
Range(seq) == { seq[i] : i \in 1 .. Len(seq) }

Finished == pc = "done"

\* the step blocks the configuration enables, SaveMetadata always
EnabledSteps ==
  { "SaveMetadata" }
  \cup (IF config.suno_url \/ config.suno_metadata_file
        THEN {"ExtractVersion"} ELSE {})
  \cup (IF config.rename_audio THEN {"RenameAudio"} ELSE {})
  \cup (IF config.organize_stems THEN {"OrganizeStems"} ELSE {})
  \cup (IF config.tag_stems THEN {"TagStems"} ELSE {})
  \cup (IF config.tag_audio THEN {"TagAudio"} ELSE {})
  \cup (IF config.validate_cover THEN {"ValidateCover"} ELSE {})
  \cup (IF config.validate_compliance THEN {"ValidateCompliance"} ELSE {})

\* the functions the steps invoke
StepFunctions ==
  { "extract_suno_version_from_url", "extract_from_metadata_file",
    "rename_audio_files", "organize_stems",
    "batch_tag_stems", "tag_audio_file", "validate_cover_art",
    "validate_audio_file", "fix_clipping_ffmpeg", "full_compliance_check",
    "save_release_metadata" }

\* the initial disk-space check found less than 500 MB free
InitialDiskShort ==
  initialFree /= NotChecked /\ initialFree < InitialRequiredMB

\* acquire_workflow_lock found a lock file that is not older than 3600 s
LockHeldByOther ==
  lockSeen.made /\ lockSeen.exists /\ lockSeen.age <= StaleAge

\* C1: whenever run_release_workflow acquired the workflow lock, the lock
\* file no longer exists when the call ends, whatever the exit path: a
\* return of true or false, a strict-mode early return, a failed initial
\* disk-space check, or an exception leaving a step or SaveMetadata.
C1_LockReleasedOnEveryExit ==
  (Finished /\ lock_file /= None) => ~lockExists

\* C1 witness: a run that held the lock ended by an exception out of
\* SaveMetadata, and the lock file is gone
C1_Witness ==
  /\ Finished
  /\ lock_file /= None
  /\ raisedIn = "save_release_metadata"
  /\ result = "raise"
  /\ ~lockExists

\* C3: strict-mode abort scenario: strict_mode true, rename_audio enabled
\* with the default max_retries, tag_audio, validate_cover and
\* validate_compliance disabled, source_audio_dir missing: the run raises or
\* returns false and writes no metadata manifest.
C3_StrictAbortMissingSource ==
  ( /\ Finished
    /\ config.strict_mode
    /\ config.rename_audio
    /\ config.max_retries = DefaultMaxRetries
    /\ ~config.tag_audio
    /\ ~config.validate_cover
    /\ ~config.validate_compliance
    /\ renameOutcomes = << "FileNotFoundError" >> )
  => (result \in {"raise", "false"} /\ ~metadataWritten)

\* C4: in non-strict mode, a run in which rename audio, organize stems, tag
\* stems, tag audio or validate cover failed never returns true.
C4_FailedStepNeverTrue ==
  ( /\ Finished
    /\ ~config.strict_mode
    /\ failedSteps \cap { "RenameAudio", "OrganizeStems", "TagStems",
                          "TagAudio", "ValidateCover" } /= {} )
  => result /= "true"

\* C5: in non-strict mode, once the lock and the initial disk-space check
\* succeeded, no exception raised inside the rename, stems, tagging, cover
\* or compliance steps leaves run_release_workflow, and every enabled step
\* and SaveMetadata execute (version extraction and SaveMetadata themselves
\* not raising).
C5_StepFailureIsolation ==
  ( /\ Finished
    /\ ~config.strict_mode
    /\ lock_file /= None
    /\ initialFree /= NotChecked /\ ~InitialDiskShort
    /\ raisedIn \notin { "extract_suno_version_from_url",
                         "save_release_metadata" } )
  => (raisedIn = None /\ EnabledSteps \subseteq Range(steps))

\* the calls made before any step, in the order of the code
PreChecks ==
  << "validate_config", "validate_dependencies", "validate_path_safety",
     "validate_path_safety", "validate_path_safety", "acquire_workflow_lock",
     "check_disk_space" >>

\* a check made before the steps failed
PreCheckFailed ==
  \/ raisedIn \in { "validate_config", "validate_dependencies",
                    "validate_path_safety" }
  \/ LockHeldByOther
  \/ InitialDiskShort

C7_DiskSpaceAlwaysFatal ==
  /\ (Finished /\ InitialDiskShort) => (result = "raise" /\ steps = << >>)
  /\ (Finished /\ recheck = "short") =>
       /\ result \in {"raise", "false"}
       /\ steps /= << >>
       /\ steps[Len(steps)] = "RenameAudio"

C9_TrueOnlyIfCompliancePassed ==
  (Finished /\ config.validate_compliance /\ result = "true")
  => complianceResult = "valid"

\* an outcome of rename_audio_files that the rename step's RetryContext
\* treats as retryable
RetryableFailure(exc) ==
  exc /= None /\ \E r \in RenameRetryable : issubclass(exc, r)

\* C10: in the rename step a retryable failure of rename_audio_files is
\* followed by another invocation, up to max_retries invocations; the step
\* counts as succeeded only if some invocation completed without error, and
\* as failed if all of them failed.
C10_RenameRetried ==
  renameOutcomes /= << >> =>
    /\ renameStatus = "succeeded" =>
         \E i \in 1 .. Len(renameOutcomes) : renameOutcomes[i] = None
    /\ (\A i \in 1 .. Len(renameOutcomes) : RetryableFailure(renameOutcomes[i]))
         => (Len(renameOutcomes) = config.max_retries /\ renameStatus = "failed")

(***************************************************************************)
(* Properties of the lock (LockSpec)                                       *)
(***************************************************************************)
\* C2: while no lock file reaches the staleness age, at most one process
\* holds the lock; an acquire that finds the lock file ends with the
\* concurrency error; an acquire that finds no lock file succeeds.
C2_MutualExclusion ==
  [][ /\ Cardinality({ p \in Procs : lheld'[p] }) <= 1
      /\ \A p \in Procs :
           /\ (lpc[p] = "open" /\ lpc'[p] /= "open")
                => IF lockExists THEN lpc'[p] = "stat" ELSE lheld'[p]
           /\ (lpc[p] = "stat" /\ lpc'[p] /= "stat")
                => lresult'[p] = ConcurrencyError
    ]_vars

(***************************************************************************)
(* retry_utils: the retry decorator and RetryContext around one wrapped    *)
(* operation (RetrySpec).                                                  *)
(***************************************************************************)
\* retryable_exceptions=(Exception,), the default of both forms
DefaultRetryable == {"Exception"}

\* settings of retryable_exceptions: the default, the tuple of the rename
\* step, and tuples that name one class
RetryableChoices ==
  { DefaultRetryable, RenameRetryable, {"NonRetryableError"}, {"ValueError"} }

\* what one invocation of the wrapped operation raises (None: it returns)
OperationOutcomes == { None, "NonRetryableError", "OSError", "ValueError" }

\* retry.wrapper, one iteration of its for loop, attempt counting from 1:
\* "return", "raise" (the exception reaches the caller) or "sleep" (delay,
\* then the next iteration)
retry_wrapper(exc_type, attempt, max_attempts, retryable_exceptions) ==
  IF exc_type = None THEN "return"
  ELSE IF issubclass(exc_type, "NonRetryableError") THEN "raise"
  ELSE IF \E r \in retryable_exceptions : issubclass(exc_type, r)
       THEN IF attempt >= max_attempts THEN "raise" ELSE "sleep"
       ELSE "raise"

\* @retry(max_attempts, retryable_exceptions=...) applied to a function that
\* is then called, or RetryContext(max_attempts, retryable_exceptions=...)
RetryInit ==
  /\ WorkflowIdle
  /\ ProcsIdle
  /\ UnitsIdleBesidesRetry
  /\ lockExists = FALSE
  /\ lockAge = 0
  /\ lockOwner = None
  /\ retryForm \in {"decorator", "context"}
  /\ retryMax \in 1 .. MaxRetriesBound
  /\ retryOn \in RetryableChoices
  /\ retryAttempt = IF retryForm = "decorator" THEN 1 ELSE 0
  /\ retryCounted = 0
  /\ retrySleeps = 0
  /\ retryRaised = << >>
  /\ retryOutcome = "running"

outsideRetry == << workflowVars, lockVars, procVars, unitsBesidesRetry >>

\* one iteration of the loop of retry.wrapper: func(*args, **kwargs) and the
\* except clauses
WrapperIteration ==
  /\ retryForm = "decorator"
  /\ retryOutcome = "running"
  /\ retryAttempt <= retryMax
  /\ \E exc \in OperationOutcomes :
       LET todo == retry_wrapper(exc, retryAttempt, retryMax, retryOn)
           counted == /\ exc /= None
                      /\ ~issubclass(exc, "NonRetryableError")
                      /\ \E r \in retryOn : issubclass(exc, r)
       IN  /\ retryRaised' = IF exc = None THEN retryRaised
                             ELSE Append(retryRaised, exc)
           /\ retryCounted' = IF counted THEN retryCounted + 1
                              ELSE retryCounted
           /\ retrySleeps' = IF todo = "sleep" THEN retrySleeps + 1
                             ELSE retrySleeps
           /\ retryAttempt' = IF todo = "sleep" THEN retryAttempt + 1
                              ELSE retryAttempt
           /\ retryOutcome' = CASE todo = "return" -> "returned"
                                [] todo = "raise"  -> exc
                                [] todo = "sleep"  -> "running"
  /\ UNCHANGED << retryForm, retryMax, retryOn, outsideRetry >>

\* with RetryContext(...): the body runs once, then __exit__ decides
ContextBlock ==
  /\ retryForm = "context"
  /\ retryOutcome = "running"
  /\ \E exc \in OperationOutcomes :
       LET r == RetryContextExit(exc, retryAttempt, retryMax, retryOn)
       IN  /\ retryRaised' = IF exc = None THEN retryRaised
                             ELSE Append(retryRaised, exc)
           /\ retryAttempt' = r.attempt
           /\ retryCounted' = r.attempt
           /\ retrySleeps' = IF r.suppress THEN retrySleeps + 1
                             ELSE retrySleeps
           /\ retryOutcome' = IF exc = None THEN "returned"
                              ELSE IF r.suppress THEN "suppressed"
                              ELSE exc
  /\ UNCHANGED << retryForm, retryMax, retryOn, outsideRetry >>

RetryNext == WrapperIteration \/ ContextBlock

RetrySpec == RetryInit /\ [][RetryNext]_vars

\* C11: in both forms and for every retryable_exceptions, once the wrapped
\* operation raises NonRetryableError the caller gets that exception at
\* once: it is not suppressed, no delay follows it and it is not counted as
\* an attempt (every failure before it was counted and followed by one
\* delay).
C11_NonRetryablePropagates ==
  (retryRaised /= << >> /\ retryRaised[Len(retryRaised)] = "NonRetryableError")
    => /\ retryOutcome = "NonRetryableError"
       /\ retrySleeps = Len(retryRaised) - 1
       /\ retryCounted = Len(retryRaised) - 1

(***************************************************************************)
(* The paths taken from the configuration (release_dir, source_audio_dir,  *)
(* source_stems_dir) through validate_config, the validate_path_safety     *)
(* calls and the first functions that use them (PathSpec).                 *)
(***************************************************************************)
\* calls that reach the file system at the path they are given or below it
\* (parent.exists looks at the directory above the path and is not one)
FsOperations == { "exists", "mkdir", "open", "disk_usage", "glob" }

PathOp(op, field) == [op |-> op, field |-> field]

\* validate_path_safety: ValueError when '..' is among the parts of the path
validate_path_safety(has_dotdot) ==
  IF has_dotdot THEN "ValueError" ELSE None

\* validate_config, path validation: Path(config[field]).exists() for the
\* source_ fields that are set, release_path.parent.exists() for an
\* absolute release_dir
validate_config_paths(present, absolute) ==
  (IF "source_audio_dir" \in present
   THEN << PathOp("exists", "source_audio_dir") >> ELSE << >>)
  \o (IF "source_stems_dir" \in present
      THEN << PathOp("exists", "source_stems_dir") >> ELSE << >>)
  \o (IF "release_dir" \in present /\ absolute
      THEN << PathOp("parent.exists", "release_dir") >> ELSE << >>)

PathInit ==
  /\ WorkflowIdle
  /\ ProcsIdle
  /\ UnitsIdleBesidesPath
  /\ lockExists = FALSE
  /\ lockAge = 0
  /\ lockOwner = None
  /\ pathPresent \in SUBSET Range(PathFields)
  /\ pathUnsafe \in SUBSET pathPresent
  /\ pathAbsolute \in BOOLEAN
  /\ pathPc = "validate_config"
  /\ pathOps = << >>
  /\ pathResult = "running"

outsidePath == << workflowVars, lockVars, procVars, unitsBesidesPath >>

\* validate_config(config), its path checks
PathValidateConfig ==
  /\ pathPc = "validate_config"
  /\ pathOps' = pathOps \o validate_config_paths(pathPresent, pathAbsolute)
  /\ pathPc' = "validate_path_safety"
  /\ UNCHANGED << pathPresent, pathUnsafe, pathAbsolute, pathResult,
                  outsidePath >>

\* the fields validate_path_safety is called on: release_dir (or its
\* default) always, the source fields when the config has them
ValidatedFields ==
  SelectSeq(PathFields, LAMBDA f : f = "release_dir" \/ f \in pathPresent)

\* lines 590-612: validate_path_safety on each field in turn, stopping at
\* the first ValueError
PathValidateSafety ==
  /\ pathPc = "validate_path_safety"
  /\ LET bad == { i \in 1 .. Len(ValidatedFields) :
                    validate_path_safety(ValidatedFields[i] \in pathUnsafe)
                      = "ValueError" }
         n == IF bad = {} THEN Len(ValidatedFields)
              ELSE CHOOSE i \in bad : \A j \in bad : i <= j
     IN  /\ pathOps' = pathOps \o
              [ i \in 1 .. n |->
                  PathOp("validate_path_safety", ValidatedFields[i]) ]
         /\ IF bad = {}
            THEN pathPc' = "acquire_workflow_lock" /\ UNCHANGED pathResult
            ELSE pathPc' = "done" /\ pathResult' = "ValueError"
  /\ UNCHANGED << pathPresent, pathUnsafe, pathAbsolute, outsidePath >>

\* acquire_workflow_lock(release_dir): lock_file.parent.mkdir, open(.., 'x')
PathAcquireLock ==
  /\ pathPc = "acquire_workflow_lock"
  /\ pathOps' = pathOps \o
       << PathOp("mkdir", "release_dir"), PathOp("open", "release_dir") >>
  /\ pathPc' = "check_disk_space"
  /\ UNCHANGED << pathPresent, pathUnsafe, pathAbsolute, pathResult,
                  outsidePath >>

\* check_disk_space(release_dir, ...): shutil.disk_usage(path)
PathDiskCheck ==
  /\ pathPc = "check_disk_space"
  /\ pathOps' = Append(pathOps, PathOp("disk_usage", "release_dir"))
  /\ pathPc' = "rename_audio"
  /\ UNCHANGED << pathPresent, pathUnsafe, pathAbsolute, pathResult,
                  outsidePath >>

\* the source directory a step reads: the configured one or the default
SourceOf(field) == IF field \in pathPresent THEN field ELSE "default"

\* Step 2: source_path.exists(), source_path.glob, then rename_audio_files
\* (dest.mkdir under release_dir)
PathRenameAudio ==
  /\ pathPc = "rename_audio"
  /\ \E enabled \in BOOLEAN :
       pathOps' = IF enabled
                  THEN pathOps \o
                       << PathOp("exists", SourceOf("source_audio_dir")),
                          PathOp("glob", SourceOf("source_audio_dir")),
                          PathOp("mkdir", "release_dir") >>
                  ELSE pathOps
  /\ pathPc' = "organize_stems"
  /\ UNCHANGED << pathPresent, pathUnsafe, pathAbsolute, pathResult,
                  outsidePath >>

\* Step 3: organize_stems (source.exists(), stems_path.mkdir, source.glob)
PathOrganizeStems ==
  /\ pathPc = "organize_stems"
  /\ \E enabled \in BOOLEAN :
       pathOps' = IF enabled
                  THEN pathOps \o
                       << PathOp("exists", SourceOf("source_stems_dir")),
                          PathOp("mkdir", "release_dir"),
                          PathOp("glob", SourceOf("source_stems_dir")) >>
                  ELSE pathOps
  /\ pathPc' = "done"
  /\ pathResult' = "passed"
  /\ UNCHANGED << pathPresent, pathUnsafe, pathAbsolute, outsidePath >>

PathNext ==
  \/ PathValidateConfig
  \/ PathValidateSafety
  \/ PathAcquireLock
  \/ PathDiskCheck
  \/ PathRenameAudio
  \/ PathOrganizeStems

PathSpec == PathInit /\ [][PathNext]_vars

\* C12: in every run, a file system operation on a path the config defines
\* (release_dir, source_audio_dir, source_stems_dir) comes only after
\* validate_path_safety has been applied to that path.
C12_ValidatedBeforeTouched ==
  \A i \in 1 .. Len(pathOps) :
    (pathOps[i].op \in FsOperations /\ pathOps[i].field \in pathPresent)
      => \E j \in 1 .. (i - 1) :
           pathOps[j] = PathOp("validate_path_safety", pathOps[i].field)

(***************************************************************************)
(* Properties of acquire_workflow_lock on a lock file left behind (Spec)   *)
(***************************************************************************)
\* C13: acquire_workflow_lock finding a lock file, nobody else acting: a
\* file older than 3600 seconds is deleted and recreated by the caller, who
\* gets the lock; a file aged 3600 seconds or less makes the call fail with
\* the concurrency error and stays as it was (same owner, same age).
C13_StaleLockThreshold ==
  [][ (pc = "acquire_workflow_lock" /\ lockExists) =>
        IF lockAge > 3600
        THEN /\ lock_file' = "path"
             /\ lockExists'
             /\ lockOwner' = "self"
             /\ lockAge' = 0
             /\ result' = "running"
        ELSE /\ result' = "raise"
             /\ raisedIn' = "acquire_workflow_lock"
             /\ lock_file' = None
             /\ lockExists'
             /\ lockOwner' = lockOwner
             /\ lockAge' = lockAge ]_vars

\* a run that found a stale lock file and holds the lock it recreated
C13_Witness ==
  /\ lockSeen.made /\ lockSeen.exists /\ lockSeen.age > 3600
  /\ lock_file = "path"
  /\ lockOwner = "self"

(***************************************************************************)
(* rename_audio_files on a source directory holding several audio files,   *)
(* one file operation per step (RenameSpec).                               *)
(***************************************************************************)
\* largest number of audio files in the source directory
MaxSourceFiles == 2

\* suffixes the function globs for, in the order of line 17
Suffixes == << ".wav", ".mp3" >>

\* contents of source files
SourceContents == { "a", "b" }

\* a destination file that was there before the call
OldContent == "old"

\* a temporary file copy2 left incomplete
PartialContent == "partial"

\* list(source.glob("*.wav")) + list(source.glob("*.mp3")): every .wav
\* before every .mp3
GlobResults ==
  LET File == [suffix : Range(Suffixes), content : SourceContents]
      Lists == UNION { [1 .. n -> File] : n \in 0 .. MaxSourceFiles }
  IN  { l \in Lists :
          \A i, j \in 1 .. Len(l) :
            (l[i].suffix = ".mp3" /\ l[j].suffix = ".wav") => j < i }

\* f"{artist} - {title}{file.suffix}": one destination per suffix
new_name(file) == file.suffix

RenameInit ==
  /\ WorkflowIdle
  /\ ProcsIdle
  /\ UnitsIdleBesidesRename
  /\ lockExists = FALSE
  /\ lockAge = 0
  /\ lockOwner = None
  /\ rnSourceExists \in BOOLEAN
  /\ rnFiles \in GlobResults
  /\ ~rnSourceExists => rnFiles = << >>
  /\ rnOverwrite \in BOOLEAN
  /\ rnDest \in [Range(Suffixes) -> {None, OldContent}]
  /\ rnDestBefore = rnDest
  /\ rnTemp = [e \in Range(Suffixes) |-> None]
  /\ rnIndex = 0
  /\ rnPc = "start"
  /\ rnResult = "running"

outsideRename == << workflowVars, lockVars, procVars, unitsBesidesRename >>

rnInputs == << rnSourceExists, rnFiles, rnOverwrite, rnDestBefore >>

\* lines 11-21: the source check, dest.mkdir, the glob, the empty case
RenameStart ==
  /\ rnPc = "start"
  /\ IF ~rnSourceExists
     THEN rnPc' = "done" /\ rnResult' = "FileNotFoundError" /\ UNCHANGED rnIndex
     ELSE IF rnFiles = << >>
     THEN rnPc' = "done" /\ rnResult' = "returned" /\ UNCHANGED rnIndex
     ELSE rnPc' = "exists" /\ rnIndex' = 1 /\ UNCHANGED rnResult
  /\ UNCHANGED << rnInputs, rnDest, rnTemp, outsideRename >>

\* lines 23-33: the next file of the loop and the check for an existing
\* destination
RenameCheckExisting ==
  /\ rnPc = "exists"
  /\ IF rnIndex > Len(rnFiles)
     THEN rnPc' = "done" /\ rnResult' = "returned"
     ELSE IF rnDest[new_name(rnFiles[rnIndex])] /= None /\ ~rnOverwrite
     THEN rnPc' = "done" /\ rnResult' = "FileExistsError"
     ELSE rnPc' = "copy" /\ UNCHANGED rnResult
  /\ UNCHANGED << rnInputs, rnDest, rnTemp, rnIndex, outsideRename >>

\* line 38: shutil.copy2(file, temp_file); it may fail before creating the
\* temporary file or after writing part of it
RenameCopy ==
  /\ rnPc = "copy"
  /\ LET f == rnFiles[rnIndex]
     IN  \E outcome \in {"copied", "refused", "partial"} :
           /\ rnTemp' =
                CASE outcome = "copied"  ->
                       [rnTemp EXCEPT ![new_name(f)] = f.content]
                  [] outcome = "partial" ->
                       [rnTemp EXCEPT ![new_name(f)] = PartialContent]
                  [] outcome = "refused" -> rnTemp
           /\ rnPc' = IF outcome = "copied" THEN "replace" ELSE "cleanup"
  /\ UNCHANGED << rnInputs, rnDest, rnIndex, rnResult, outsideRename >>

\* line 40: temp_file.replace(dest_file)
RenameReplace ==
  /\ rnPc = "replace"
  /\ LET n == new_name(rnFiles[rnIndex])
     IN  \E replaced \in BOOLEAN :
           IF replaced
           THEN /\ rnDest' = [rnDest EXCEPT ![n] = rnTemp[n]]
                /\ rnTemp' = [rnTemp EXCEPT ![n] = None]
                /\ rnIndex' = rnIndex + 1
                /\ rnPc' = "exists"
           ELSE /\ rnPc' = "cleanup"
                /\ UNCHANGED << rnDest, rnTemp, rnIndex >>
  /\ UNCHANGED << rnInputs, rnResult, outsideRename >>

\* lines 42-46: except Exception: unlink the temporary file, raise
RenameCleanup ==
  /\ rnPc = "cleanup"
  /\ rnTemp' = [rnTemp EXCEPT ![new_name(rnFiles[rnIndex])] = None]
  /\ rnPc' = "done"
  /\ rnResult' = "OSError"
  /\ UNCHANGED << rnInputs, rnDest, rnIndex, outsideRename >>

RenameNext ==
  \/ RenameStart
  \/ RenameCheckExisting
  \/ RenameCopy
  \/ RenameReplace
  \/ RenameCleanup

RenameSpec == RenameInit /\ [][RenameNext]_vars

\* C14: after rename_audio_files returns, every source file's destination
\* '<artist> - <title><ext>' holds that file's content and no temporary
\* file is left; after it raises, no temporary file is left and no
\* destination file exists that was not there before the call.
C14_AtomicAudioPlacement ==
  /\ rnResult = "returned" =>
       /\ \A i \in 1 .. Len(rnFiles) :
            rnDest[new_name(rnFiles[i])] = rnFiles[i].content
       /\ \A e \in DOMAIN rnTemp : rnTemp[e] = None
  /\ rnResult \notin {"idle", "running", "returned"} =>
       /\ \A e \in DOMAIN rnTemp : rnTemp[e] = None
       /\ \A e \in DOMAIN rnDest :
            rnDestBefore[e] = None => rnDest[e] = None

(***************************************************************************)
(* save_release_metadata called repeatedly with the same arguments on one  *)
(* output directory (MetadataSpec).                                        *)
(***************************************************************************)
\* number of calls made with the same arguments
MaxSaves == 2

\* latest value of the clock
MaxNow == 3

\* the metadata argument: dictionaries, some with keys that the function
\* also sets itself
MetadataChoices ==
  { << >>,
    [genre |-> "Pop"],
    [genre |-> "Pop", created_date |-> "2020-01-01"],
    [artist |-> "Someone Else"] }

\* dictionaries as functions from keys to values; {"k": v, ..., **metadata}
\* lets the keys of metadata win
DictMerge(base, over) ==
  [k \in DOMAIN base \cup DOMAIN over |->
     IF k \in DOMAIN over THEN over[k] ELSE base[k]]

\* release_metadata = {"artist": .., "title": .., "created_date": ..,
\* **metadata}
release_metadata(artist, title, now, metadata) ==
  DictMerge([artist |-> artist, title |-> title, created_date |-> now],
            metadata)

\* metadata_file = output_path / f"{artist} - {title} - Metadata.json"
metadata_file(artist, title) ==
  [stem |-> << artist, title, "Metadata" >>, suffix |-> ".json"]

\* Path.with_suffix
with_suffix(path, suffix) == [path EXCEPT !.suffix = suffix]

\* a directory with file name holding content
WriteFile(dir, name, content) ==
  [n \in DOMAIN dir \cup {name} |-> IF n = name THEN content ELSE dir[n]]

\* mutant: the cleanup leaves the temporary file
unlink_kept(dir, name) == dir

\* Path.unlink
unlink(dir, name) == [n \in DOMAIN dir \ {name} |-> dir[n]]

\* the files of a directory with a given suffix
Glob(dir, suffix) == { n \in DOMAIN dir : n.suffix = suffix }

MetadataInit ==
  /\ WorkflowIdle
  /\ ProcsIdle
  /\ UnitsIdleBesidesMetadata
  /\ lockExists = FALSE
  /\ lockAge = 0
  /\ lockOwner = None
  /\ mdArgs \in [artist : {"Test Artist"},
                 title : {"Test Track", "Other Track"},
                 metadata : MetadataChoices]
  /\ \E old \in BOOLEAN :
       mdDir = IF old
               THEN WriteFile(<< >>, metadata_file(mdArgs.artist, mdArgs.title),
                              [artist |-> "Test Artist", title |-> "Old"])
               ELSE << >>
  /\ mdNow = 0
  /\ mdPc = "start"
  /\ mdContent = << >>
  /\ mdHistory = << >>

outsideMetadata == << workflowVars, lockVars, procVars, unitsBesidesMetadata >>

mdFile == metadata_file(mdArgs.artist, mdArgs.title)

mdTempFile == with_suffix(mdFile, ".tmp")

\* the call ends: what it returned or raised, and the files it leaves
MetadataEnds(outcome, dir) ==
  /\ mdHistory' = Append(mdHistory, [result |-> outcome, dir |-> dir])
  /\ mdPc' = "start"

\* lines 512-520: mkdir, the dictionary with the current time
MetadataBuild ==
  /\ mdPc = "start"
  /\ Len(mdHistory) < MaxSaves
  /\ \E now \in mdNow .. MaxNow :
       /\ mdNow' = now
       /\ mdContent' = release_metadata(mdArgs.artist, mdArgs.title, now,
                                        mdArgs.metadata)
  /\ mdPc' = "write"
  /\ UNCHANGED << mdArgs, mdDir, mdHistory, outsideMetadata >>

\* lines 526-529: open(temp_metadata, "w") and json.dump; the write may be
\* refused or stop after a part of the text
MetadataWrite ==
  /\ mdPc = "write"
  /\ \E outcome \in {"written", "refused", "partial"} :
       /\ mdDir' = CASE outcome = "written" ->
                          WriteFile(mdDir, mdTempFile, mdContent)
                     [] outcome = "partial" ->
                          WriteFile(mdDir, mdTempFile, << >>)
                     [] outcome = "refused" -> mdDir
       /\ mdPc' = IF outcome = "written" THEN "replace" ELSE "cleanup"
  /\ UNCHANGED << mdArgs, mdNow, mdContent, mdHistory, outsideMetadata >>

\* line 531: temp_metadata.replace(metadata_file), then return
MetadataReplace ==
  /\ mdPc = "replace"
  /\ \E replaced \in BOOLEAN :
       IF replaced
       THEN LET dir == unlink(WriteFile(mdDir, mdFile, mdDir[mdTempFile]),
                              mdTempFile)
            IN  mdDir' = dir /\ MetadataEnds("returned", dir)
       ELSE mdPc' = "cleanup" /\ UNCHANGED << mdDir, mdHistory >>
  /\ UNCHANGED << mdArgs, mdNow, mdContent, outsideMetadata >>

\* lines 532-536: except Exception: unlink the temporary file, raise
MetadataCleanup ==
  /\ mdPc = "cleanup"
  /\ LET dir == IF mdTempFile \in DOMAIN mdDir
                THEN unlink(mdDir, mdTempFile) ELSE mdDir
     IN  mdDir' = dir /\ MetadataEnds("OSError", dir)
  /\ UNCHANGED << mdArgs, mdNow, mdContent, outsideMetadata >>

MetadataNext ==
  \/ MetadataBuild
  \/ MetadataWrite
  \/ MetadataReplace
  \/ MetadataCleanup

MetadataSpec == MetadataInit /\ [][MetadataNext]_vars

\* a dictionary without one key
Without(dict, key) == [k \in DOMAIN dict \ {key} |-> dict[k]]

\* C15: save_release_metadata called again with the same artist, title,
\* metadata and output_dir: after any two calls that returned there is
\* exactly one .json file, and its content after the later call differs
\* from its content after the earlier one in nothing but created_date; no
\* .tmp file is left after any call, returned or raised.
C15_IdempotentUpToTimestamp ==
  /\ \A i \in 1 .. Len(mdHistory) : Glob(mdHistory[i].dir, ".tmp") = {}
  /\ \A i, j \in 1 .. Len(mdHistory) :
       (i < j /\ mdHistory[i].result = "returned"
              /\ mdHistory[j].result = "returned")
         => /\ Glob(mdHistory[j].dir, ".json") = {mdFile}
            /\ Without(mdHistory[j].dir[mdFile], "created_date")
                 = Without(mdHistory[i].dir[mdFile], "created_date")

\* two calls returned, the second at a later time than the first
C15_Witness ==
  /\ Len(mdHistory) = 2
  /\ mdHistory[1].result = "returned"
  /\ mdHistory[2].result = "returned"
  /\ mdHistory[1].dir[mdFile] /= mdHistory[2].dir[mdFile]

(***************************************************************************)
(* Order of the steps of run_release_workflow (Spec)                       *)
(***************************************************************************)
\* the steps in the order of the code (Step 1 .. Step 8)
StepOrder ==
  << "ExtractVersion", "RenameAudio", "OrganizeStems", "TagStems",
     "TagAudio", "ValidateCover", "ValidateCompliance", "SaveMetadata" >>

StepIndex(step) == CHOOSE k \in 1 .. Len(StepOrder) : StepOrder[k] = step

\* C16: the steps a run executes are taken from ExtractVersion, RenameAudio,
\* OrganizeStems, TagStems, TagAudio, ValidateCover, ValidateCompliance,
\* SaveMetadata in that order, none twice; each one is enabled by its flag
\* (ExtractVersion by suno_url or suno_metadata_file); a run that does not
\* raise and does not stop at a strict_mode failure ends its steps with
\* SaveMetadata, and nothing follows SaveMetadata.
C16_StepOrder ==
  /\ \A i \in 1 .. Len(steps) : steps[i] \in Range(StepOrder)
  /\ \A i, j \in 1 .. Len(steps) :
       i < j => StepIndex(steps[i]) < StepIndex(steps[j])
  /\ Range(steps) \subseteq EnabledSteps
  /\ (Finished /\ result /= "raise" /\ ~config.strict_mode)
       => (steps /= << >> /\ steps[Len(steps)] = "SaveMetadata")
  /\ (Finished /\ result = "true")
       => (steps /= << >> /\ steps[Len(steps)] = "SaveMetadata")
  /\ metadataWritten => steps[Len(steps)] = "SaveMetadata"

\* a finished run with every flag set that executed all eight steps
C16_Witness ==
  /\ Finished
  /\ steps = StepOrder

(***************************************************************************)
(* The end-to-end scenario of test_full_workflow.py (Spec)                 *)
(***************************************************************************)
\* the flags of the test configuration; those it leaves out have their
\* defaults
EndToEndConfig ==
  /\ config.rename_audio
  /\ ~config.organize_stems
  /\ ~config.tag_stems
  /\ ~config.tag_audio
  /\ ~config.validate_cover
  /\ ~config.validate_compliance
  /\ ~config.suno_url
  /\ ~config.suno_metadata_file
  /\ ~config.strict_mode
  /\ config.max_retries = DefaultMaxRetries

\* what the scenario's environment answers: packages installed, no lock
\* file in release_dir, 500 MB free, one .mp3 in source_audio_dir that is
\* copied without an I/O error (the destination absent, or
\* overwrite_existing set in the second run), the manifest written without
\* an I/O error
EndToEndEnvironment ==
  /\ raisedIn = None
  /\ lockSeen.made /\ ~lockSeen.exists
  /\ initialFree >= InitialRequiredMB
  /\ recheck = "enough"
  /\ renameOutcomes = << None >>

\* the metadata argument of Step 8 for the test configuration
EndToEndMetadata ==
  [ genre |-> "", bpm |-> None, key |-> None, explicit |-> FALSE,
    language |-> "English", mood |-> None, target_regions |-> << >>,
    isrc |-> "", upc |-> "", suno_version |-> None,
    suno_build_id |-> None ]

\* C17: the test configuration (artist 'Test Artist', title 'Test Track',
\* one .mp3 in source_audio_dir, tag_audio, validate_cover,
\* validate_compliance and organize_stems false) run on an empty release
\* directory, or run again with overwrite_existing, returns true; the audio
\* file and the manifest then exist, the manifest being the one .json file
\* of Metadata and carrying the artist and the title.
C17_EndToEndSuccess ==
  (Finished /\ EndToEndConfig /\ EndToEndEnvironment) =>
    /\ result = "true"
    /\ steps = << "RenameAudio", "SaveMetadata" >>
    /\ audioExists
    /\ metadataWritten
    /\ LET name == metadata_file("Test Artist", "Test Track")
           text == release_metadata("Test Artist", "Test Track", 0,
                                    EndToEndMetadata)
           dir  == WriteFile(<< >>, name, text)
       IN  /\ Glob(dir, ".json") = {name}
           /\ dir[name].artist = "Test Artist"
           /\ dir[name].title = "Test Track"

\* the scenario has run to its end
C17_Witness ==
  /\ Finished /\ EndToEndConfig /\ EndToEndEnvironment
  /\ result = "true"
  /\ audioExists /\ metadataWritten

(***************************************************************************)
(* The command line entry points and the exit code they give the process   *)
(* (ExitSpec).                                                             *)
(***************************************************************************)
\* largest number of release configs a batch finds
MaxReleases == 3

\* single-release entry points: commands/pack.py pack (typer),
\* scripts/pack.py main, pack.py main, orchestrator.py main
SingleCallers ==
  { "commands.pack.pack", "scripts.pack.main", "pack.main",
    "orchestrator.main" }

\* batch entry points: commands/batch.py batch (typer), scripts/pack.py
\* main with --batch
BatchCallers == { "commands.batch.batch", "scripts.pack.main --batch" }

\* how the entry point ends the process: raise typer.Exit(code) or
\* sys.exit(code)
ExitException(caller) ==
  IF caller \in {"commands.pack.pack", "commands.batch.batch"}
  THEN "Exit" ELSE "SystemExit"

\* what run_release_workflow does for one release
WorkflowOutcomes == { "true", "false", "raise" }

\* the exit statement stands inside try ... except Exception: ... exit 1;
\* the handler takes over when the exception raised to exit is an
\* Exception
ExitInsideTry(exc, code) ==
  IF issubclass(exc, "Exception") THEN 1 ELSE code

\* success = run_release_workflow(config); exit(0 if success else 1), and
\* exit(1) in every except clause
single_exit(caller, outcome) ==
  IF outcome = "raise" THEN 1
  ELSE ExitInsideTry(ExitException(caller),
                     IF outcome = "true" THEN 0 ELSE 1)

\* process_batch: results[...]["status"]
batch_status(outcome) ==
  CASE outcome = "true"  -> "success"
    [] outcome = "false" -> "warnings"
    [] outcome = "raise" -> "error"

\* failed = sum(1 for r in results.values() if r.get("status") == "error");
\* exit(1 if failed > 0 else 0)
batch_exit(caller, status) ==
  LET failed == Cardinality({ i \in 1 .. Len(status) : status[i] = "error" })
  IN  ExitInsideTry(ExitException(caller), IF failed > 0 THEN 1 ELSE 0)

ExitInit ==
  /\ WorkflowIdle
  /\ ProcsIdle
  /\ UnitsIdleBesidesExit
  /\ lockExists = FALSE
  /\ lockAge = 0
  /\ lockOwner = None
  /\ exCaller \in SingleCallers \cup BatchCallers
  /\ exTotal \in 1 .. MaxReleases
  /\ exCaller \in SingleCallers => exTotal = 1
  /\ exContinue \in BOOLEAN
  /\ exCaller /= "commands.batch.batch" => exContinue = TRUE
  /\ exOutcomes = << >>
  /\ exStatus = << >>
  /\ exPc = "run"
  /\ exCode = 0

outsideExit == << workflowVars, lockVars, procVars, unitsBesidesExit >>

\* a single-release entry point: load_config, run_release_workflow, exit
SingleRelease ==
  /\ exPc = "run"
  /\ exCaller \in SingleCallers
  /\ \E outcome \in WorkflowOutcomes :
       /\ exOutcomes' = Append(exOutcomes, outcome)
       /\ exCode' = single_exit(exCaller, outcome)
  /\ exPc' = "exited"
  /\ UNCHANGED << exCaller, exTotal, exContinue, exStatus, outsideExit >>

\* process_batch, one iteration of its loop over the config files
BatchRelease ==
  /\ exPc = "run"
  /\ exCaller \in BatchCallers
  /\ Len(exOutcomes) < exTotal
  /\ \E outcome \in WorkflowOutcomes :
       /\ exOutcomes' = Append(exOutcomes, outcome)
       /\ exStatus' = Append(exStatus, batch_status(outcome))
       /\ exPc' = IF \/ (batch_status(outcome) = "error" /\ ~exContinue)
                     \/ Len(exOutcomes) + 1 = exTotal
                  THEN "summary" ELSE "run"
  /\ UNCHANGED << exCaller, exTotal, exContinue, exCode, outsideExit >>

\* process_batch returns results; the entry point counts the failures and
\* exits
BatchExit ==
  /\ exPc = "summary"
  /\ exCode' = batch_exit(exCaller, exStatus)
  /\ exPc' = "exited"
  /\ UNCHANGED << exCaller, exTotal, exContinue, exOutcomes, exStatus,
                  outsideExit >>

ExitNext == SingleRelease \/ BatchRelease \/ BatchExit

ExitSpec == ExitInit /\ [][ExitNext]_vars

\* C18: every entry point exits with code 0 exactly when every release's
\* run_release_workflow returned true (for a single-release entry point:
\* when its one run returned true); a run that returned false or raised
\* gives a non-zero code.
C18_ExitCodeFollowsResult ==
  exPc = "exited" =>
    (exCode = 0 <=>
       /\ Len(exOutcomes) = exTotal
       /\ \A i \in 1 .. Len(exOutcomes) : exOutcomes[i] = "true")

(***************************************************************************)
(* load_config: the artist defaults and the release document are read,     *)
(* the release document is validated and the two are merged (LoadSpec).    *)
(***************************************************************************)
\* JSON values
Str(s) == [type |-> "string", val |-> s]
Num(n) == [type |-> "number", val |-> n]
Bool(b) == [type |-> "boolean", val |-> b]

\* {}
EmptyDict == [k \in {} |-> Str("")]

\* what a file on disk is: absent, bytes that are no UTF-8, text that is no
\* JSON, JSON that is no object (a list), or a JSON object
FileStates == { "absent", "invalid_utf8", "invalid_json", "not_object",
                "object" }

\* the keys of the documents of the model and the values each may carry; a
\* default_artist that is a number is what the defaults schema rejects
DefaultsValues ==
  [ default_artist |-> { Str("A"), Num("7") },
    title          |-> { Str("D") },
    _comment       |-> { Str("c") } ]

ReleaseValues ==
  [ artist                   |-> { Str("B") },
    title                    |-> { Str("T") },
    source_audio_dir         |-> { Str("in") },
    release_dir              |-> { Str("out") },
    strict_schema_validation |-> { Bool("true"), Bool("false") } ]

\* every JSON object over some of the keys of a table of values
Objects(values) ==
  UNION { { f \in [ks -> UNION { values[k] : k \in ks }] :
              \A k \in ks : f[k] \in values[k] } :
          ks \in SUBSET DOMAIN values }

Documents(values) ==
  { [status |-> s, content |-> EmptyDict] : s \in FileStates \ {"object"} }
    \cup { [status |-> "object", content |-> c] : c \in Objects(values) }

\* k.startswith(prefix), for the keys of the model
KeyPrefixes ==
  [ default_artist |-> {"default_"}, _comment |-> {"_"} ]

startswith(key, prefix) ==
  key \in DOMAIN KeyPrefixes /\ prefix \in KeyPrefixes[key]

\* bool(value)
Truthy(value) ==
  CASE value.type = "string"  -> value.val /= ""
    [] value.type = "number"  -> value.val /= "0"
    [] value.type = "boolean" -> value.val = "true"

\* what a function raised (exc, msg) or returned (value)
Raised(exc, msg) == [exc |-> exc, msg |-> msg, value |-> EmptyDict]
Returned(value) == [exc |-> None, msg |-> "", value |-> value]

\* with open(file, "r", encoding="utf-8") as f: json.load(f): the
\* exception it raises, None when it returns
json_load(doc) ==
  CASE doc.status = "invalid_utf8" -> "UnicodeDecodeError"
    [] doc.status = "invalid_json" -> "JSONDecodeError"
    [] OTHER                       -> None

\* the environment of validate_config.py: jsonschema installed and the
\* schema file found, jsonschema not installed, schema file not found
Validators == { "jsonschema", "no_jsonschema", "no_schema" }

\* _basic_validation_artist_defaults: type_checks of the default_* fields
basic_validation_artist_defaults(document) ==
  \A field \in {"default_artist"} \cap DOMAIN document :
    document[field].type = "string"

\* _basic_validation_release: required fields present and not empty,
\* type_checks of the fields
basic_validation_release(document) ==
  /\ \A field \in {"title", "source_audio_dir", "release_dir"} :
       /\ field \in DOMAIN document
       /\ Truthy(document[field])
  /\ \A field \in {"title", "artist", "source_audio_dir", "release_dir"}
                    \cap DOMAIN document :
       document[field].type = "string"

\* validate_artist_defaults(settings_file, strict=False): is_valid; verdict
\* is whether Draft7Validator finds no error in the file
validate_artist_defaults(document, validator, verdict) ==
  CASE validator = "no_jsonschema" -> basic_validation_artist_defaults(document)
    [] validator = "no_schema"     -> TRUE
    [] validator = "jsonschema"    -> verdict

\* validate_release_config(config_file, strict): raises ValueError or
\* returns is_valid (value.is_valid)
validate_release_config(document, strict, validator, verdict) ==
  LET is_valid(b) == Returned([is_valid |-> Bool(IF b THEN "true" ELSE "false")])
  IN  CASE validator = "no_jsonschema" ->
             IF strict THEN Raised("ValueError", "jsonschema not installed")
             ELSE is_valid(basic_validation_release(document))
        [] validator = "no_schema" ->
             IF strict THEN Raised("ValueError", "Schema file not found")
             ELSE is_valid(TRUE)
        [] validator = "jsonschema" ->
             IF verdict THEN is_valid(TRUE)
             ELSE IF strict
                  THEN Raised("ValueError", "Schema validation failed")
                  ELSE is_valid(FALSE)

\* load_user_settings: {} when the file is absent; the keys that do not
\* start with "_" when it is read; {} when reading raises
\* json.JSONDecodeError or UnicodeDecodeError; settings.items() of a JSON
\* value that is no object raises AttributeError, which no clause catches
load_user_settings(doc) ==
  IF doc.status = "absent" THEN Returned(EmptyDict)
  ELSE LET exc == IF json_load(doc) /= None THEN json_load(doc)
                  ELSE IF doc.status = "not_object" THEN "AttributeError"
                  ELSE None
           filtered == [k \in { k \in DOMAIN doc.content :
                                  ~startswith(k, "_") } |-> doc.content[k]]
       IN  IF exc = None THEN Returned(filtered)
           ELSE IF \/ issubclass(exc, "JSONDecodeError")
                   \/ issubclass(exc, "UnicodeDecodeError")
                THEN Returned(EmptyDict)
                ELSE Raised(exc, "")

\* the release file is read: ValueError with the line and the column for
\* text that is no JSON, ValueError for bytes that are no UTF-8
read_release_config(doc) ==
  CASE json_load(doc) = "JSONDecodeError" ->
         Raised("ValueError", "Invalid JSON: Line {lineno}, column {colno}")
    [] json_load(doc) = "UnicodeDecodeError" ->
         Raised("ValueError", "not valid UTF-8 text")
    [] OTHER -> Returned(doc.content)

\* if validate: strict_validation = release_config.get(
\* "strict_schema_validation", True); validate_release_config(...); a
\* release document that is a list has no get
check_release_config(doc, validate, validator, verdict) ==
  IF ~validate THEN Returned(EmptyDict)
  ELSE IF doc.status /= "object" THEN Raised("AttributeError", "")
  ELSE LET release_config == doc.content
           strict_validation ==
             IF "strict_schema_validation" \in DOMAIN release_config
             THEN Truthy(release_config["strict_schema_validation"])
             ELSE TRUE
           checked == validate_release_config(release_config,
                        strict_validation, validator, verdict)
       IN  IF checked.exc /= None THEN checked
           ELSE IF ~Truthy(checked.value.is_valid) /\ strict_validation
                THEN Raised("ValueError", "Schema validation failed")
                ELSE Returned(EmptyDict)

\* the default artist whether or not the release names an artist
merged_config_default_wins(user_settings, release_config) ==
  IF "default_artist" \in DOMAIN user_settings
  THEN [artist |-> user_settings["default_artist"]]
  ELSE EmptyDict

\* merged_config: the default artist if the release names no artist
merged_config(user_settings, release_config) ==
  IF /\ "artist" \notin DOMAIN release_config
     /\ "default_artist" \in DOMAIN user_settings
  THEN [artist |-> user_settings["default_artist"]]
  ELSE EmptyDict

\* {**user_settings, **release_config, **merged_config}
merge_everything(user_settings, release_config, merged) ==
  DictMerge(DictMerge(user_settings, release_config), merged)

\* final_config without the keys that start with "default_"
final_config(user_settings, release_config, merged) ==
  LET everything == merge_everything(user_settings, release_config, merged)
  IN  [k \in { k \in DOMAIN everything : ~startswith(k, "default_") } |->
         everything[k]]

\* the merge of load_config; {**user_settings, **release_config} of a
\* release document that is a list raises TypeError
merge_config(user_settings, doc) ==
  IF doc.status /= "object" THEN Raised("TypeError", "")
  ELSE Returned(final_config(user_settings, doc.content,
                             merged_config(user_settings, doc.content)))

\* load_config(config_path, validate) as a function of the two files and
\* the environment
load_config(defaults, release, validate, validator, verdicts) ==
  IF release.status = "absent"
  THEN Raised("FileNotFoundError", "Config file not found")
  ELSE LET user_settings == load_user_settings(defaults)
           release_config == read_release_config(release)
           checked == check_release_config(release, validate, validator,
                                           verdicts.release)
       IN  IF user_settings.exc /= None THEN user_settings
           ELSE IF release_config.exc /= None THEN release_config
           ELSE IF checked.exc /= None THEN checked
           ELSE merge_config(user_settings.value, release)

LoadInit ==
  /\ WorkflowIdle
  /\ ProcsIdle
  /\ UnitsIdleBesidesLoad
  /\ lockExists = FALSE
  /\ lockAge = 0
  /\ lockOwner = None
  /\ ldDefaults \in Documents(DefaultsValues)
  /\ ldRelease \in Documents(ReleaseValues)
  /\ ldValidate \in BOOLEAN
  /\ ldValidator \in Validators
  /\ ldVerdicts \in [defaults : BOOLEAN, release : BOOLEAN]
  /\ ldValidator /= "jsonschema" =>
       ldVerdicts = [defaults |-> TRUE, release |-> TRUE]
  /\ ldUserSettings = EmptyDict
  /\ ldDefaultsValid = TRUE
  /\ ldReleaseConfig = EmptyDict
  /\ ldPc = "exists"
  /\ ldResult = Returned(EmptyDict)

outsideLoad == << workflowVars, lockVars, procVars, unitsBesidesLoad >>

ldInputs == << ldDefaults, ldRelease, ldValidate, ldValidator, ldVerdicts >>

\* load_config ends: it raises or returns
LoadEnds(outcome) ==
  /\ ldResult' = outcome
  /\ ldPc' = "done"

\* if not config_file.exists(): raise FileNotFoundError
LoadExists ==
  /\ ldPc = "exists"
  /\ IF ldRelease.status = "absent"
     THEN LoadEnds(Raised("FileNotFoundError", "Config file not found"))
     ELSE ldPc' = "load_user_settings" /\ UNCHANGED ldResult
  /\ UNCHANGED << ldInputs, ldUserSettings, ldDefaultsValid, ldReleaseConfig,
                  outsideLoad >>

\* user_settings = load_user_settings()
LoadUserSettings ==
  /\ ldPc = "load_user_settings"
  /\ LET settings == load_user_settings(ldDefaults)
     IN  IF settings.exc /= None
         THEN /\ LoadEnds(settings)
              /\ UNCHANGED << ldUserSettings, ldDefaultsValid >>
         ELSE /\ ldUserSettings' = settings.value
              /\ ldDefaultsValid' =
                   IF ldDefaults.status = "object"
                   THEN validate_artist_defaults(ldDefaults.content,
                          ldValidator, ldVerdicts.defaults)
                   ELSE ldDefaultsValid
              /\ ldPc' = "json_load"
              /\ UNCHANGED ldResult
  /\ UNCHANGED << ldInputs, ldReleaseConfig, outsideLoad >>

\* release_config = json.load(f)
LoadRelease ==
  /\ ldPc = "json_load"
  /\ LET parsed == read_release_config(ldRelease)
     IN  IF parsed.exc /= None
         THEN LoadEnds(parsed) /\ UNCHANGED ldReleaseConfig
         ELSE /\ ldReleaseConfig' = parsed.value
              /\ ldPc' = "validate"
              /\ UNCHANGED ldResult
  /\ UNCHANGED << ldInputs, ldUserSettings, ldDefaultsValid, outsideLoad >>

\* if validate: ...
LoadValidate ==
  /\ ldPc = "validate"
  /\ LET checked == check_release_config(ldRelease, ldValidate, ldValidator,
                                         ldVerdicts.release)
     IN  IF checked.exc /= None
         THEN LoadEnds(checked)
         ELSE ldPc' = "merge" /\ UNCHANGED ldResult
  /\ UNCHANGED << ldInputs, ldUserSettings, ldDefaultsValid, ldReleaseConfig,
                  outsideLoad >>

\* the merge, and return final_config
LoadMerge ==
  /\ ldPc = "merge"
  /\ LoadEnds(merge_config(ldUserSettings, ldRelease))
  /\ UNCHANGED << ldInputs, ldUserSettings, ldDefaultsValid, ldReleaseConfig,
                  outsideLoad >>

LoadNext ==
  LoadExists \/ LoadUserSettings \/ LoadRelease \/ LoadValidate \/ LoadMerge

LoadSpec == LoadInit /\ [][LoadNext]_vars

\* dict.get(key), with a value of its own for a key that is not there
Missing == [type |-> "missing", val |-> ""]

Get(dict, key) == IF key \in DOMAIN dict THEN dict[key] ELSE Missing

\* load_config returned a configuration
LoadReturned == ldPc = "done" /\ ldResult.exc = None

\* the artist of the merged configuration: the release's artist when the
\* release names one; the default_artist exactly when the release names
\* none and the defaults define one
ArtistPrecedence ==
  LET D == ldUserSettings
      R == ldReleaseConfig
      artist == Get(ldResult.value, "artist")
  IN  /\ "artist" \in DOMAIN R => artist = R["artist"]
      /\ ("artist" \notin DOMAIN R /\ "default_artist" \in DOMAIN D)
           => artist = D["default_artist"]
      /\ ("artist" \notin DOMAIN R /\ "default_artist" \notin DOMAIN D)
           => artist = Get(D, "artist")

\* C19 as stated: in the configuration load_config returns, the artist is
\* the release's artist whenever the release has the key, and the
\* default_artist of the defaults when the release omits artist and the
\* defaults define default_artist; the title is always the release's title.
C19_Original ==
  LoadReturned =>
    /\ ArtistPrecedence
    /\ Get(ldResult.value, "title") = Get(ldReleaseConfig, "title")

\* C19 (amended): in the configuration load_config returns, the artist is
\* the release's artist whenever the release has the key, and the
\* default_artist of the defaults when the release omits artist and the
\* defaults define default_artist; the title is the release's title
\* whenever the release has the key title, and otherwise the title key of
\* the defaults, if any, shows through.
C19_MergePrecedence ==
  LoadReturned =>
    /\ ArtistPrecedence
    /\ Get(ldResult.value, "title") =
         IF "title" \in DOMAIN ldReleaseConfig
         THEN ldReleaseConfig["title"]
         ELSE Get(ldUserSettings, "title")

\* a release with artist and title was merged with defaults that define
\* default_artist and a title
C19_Witness ==
  /\ LoadReturned
  /\ {"artist", "title"} \subseteq DOMAIN ldReleaseConfig
  /\ {"default_artist", "title"} \subseteq DOMAIN ldUserSettings
  /\ ldResult.value["artist"] = Str("B")
  /\ ldResult.value["title"] = Str("T")

\* no artist-defaults.json in configs/ or in the working directory
NoDefaults == [status |-> "absent", content |-> EmptyDict]

\* a defect of the artist defaults: the file is absent, is no UTF-8, is no
\* JSON, is no JSON object, or validate_artist_defaults finds it invalid
DefectiveDefaults ==
  \/ ldDefaults.status /= "object"
  \/ ~validate_artist_defaults(ldDefaults.content, ldValidator,
                               ldVerdicts.defaults)

\* the release document fails strict schema validation
FailsStrictValidation ==
  /\ ldRelease.status = "object"
  /\ ldValidate
  /\ Get(ldRelease.content, "strict_schema_validation") /= Bool("false")
  /\ ldValidator = "jsonschema"
  /\ ~ldVerdicts.release

\* C20: whether load_config raises depends on the release document only.
\* It raises FileNotFoundError when the release file is missing, and
\* raises when the file is no UTF-8, is no JSON (the message names line and
\* column) or fails strict schema validation; and whatever defect the
\* artist defaults have (absent, no JSON, no UTF-8, schema-invalid, no JSON
\* object), load_config does what it does without defaults: it raises the
\* same or returns the same configuration.
C20_FailureDependsOnReleaseOnly ==
  ldPc = "done" =>
    LET alone == load_config(NoDefaults, ldRelease, ldValidate, ldValidator,
                             ldVerdicts)
    IN  /\ (ldResult.exc /= None) <=> (alone.exc /= None)
        /\ DefectiveDefaults => ldResult = alone
        /\ ldRelease.status = "absent" => ldResult.exc = "FileNotFoundError"
        /\ ldRelease.status = "invalid_utf8" => ldResult.exc /= None
        /\ ldRelease.status = "invalid_json" =>
             /\ ldResult.exc /= None
             /\ ldResult.exc = "ValueError" =>
                  ldResult.msg = "Invalid JSON: Line {lineno}, column {colno}"
        /\ FailsStrictValidation => ldResult.exc /= None

(***************************************************************************)
(* validate_config: the rules a configuration is checked against           *)
(* (ValidateSpec).  Strings are sequences of characters, so that strip,    *)
(* split and isdigit are computed.                                         *)
(***************************************************************************)
\* Python values: type(value).__name__, the characters of a str, the number
\* of an int or a bool
PyStr(chars) == [type |-> "str", str |-> chars, num |-> 0]
PyInt(n) == [type |-> "int", str |-> << >>, num |-> n]
PyBool(b) == [type |-> "bool", str |-> << >>, num |-> IF b THEN 1 ELSE 0]
PyFloat == [type |-> "float", str |-> << >>, num |-> 1]
PyDict == [type |-> "dict", str |-> << >>, num |-> 1]

\* isinstance(value, cls): bool is a subclass of int
isinstance(value, cls) ==
  value.type = cls \/ (value.type = "bool" /\ cls = "int")

\* bool(value)
truth(value) ==
  IF value.type = "str" THEN value.str /= << >> ELSE value.num /= 0

\* s.strip() == "" for the white space of the model
IsBlank(chars) == \A i \in 1 .. Len(chars) : chars[i] = " "

\* s.isdigit()
isdigit(chars) ==
  /\ chars /= << >>
  /\ \A i \in 1 .. Len(chars) : chars[i] \in {"0", "1", "5"}

\* s.split(sep)
RECURSIVE split(_, _)
split(chars, sep) ==
  IF \A i \in 1 .. Len(chars) : chars[i] /= sep THEN << chars >>
  ELSE LET i == CHOOSE i \in 1 .. Len(chars) :
                  /\ chars[i] = sep
                  /\ \A j \in 1 .. i - 1 : chars[j] /= sep
       IN  << SubSeq(chars, 1, i - 1) >>
             \o split(SubSeq(chars, i + 1, Len(chars)), sep)

\* invalid_chars = '<>:"/\|?*'
InvalidChars == { "<", ">", ":", "\"", "/", "\\", "|", "?", "*" }

\* type_checks of validate_config
TypeChecks ==
  [ bpm |-> "int", explicit |-> "bool", organize_stems |-> "bool",
    tag_stems |-> "bool", tag_audio |-> "bool", validate_cover |-> "bool",
    validate_compliance |-> "bool", strict_mode |-> "bool",
    overwrite_existing |-> "bool" ]

\* the boolean toggles a configuration may carry
Toggles ==
  { "organize_stems", "tag_stems", "tag_audio", "validate_cover",
    "validate_compliance", "strict_mode", "overwrite_existing",
    "auto_fix_clipping", "rename_audio", "debug" }

\* the configurations validate_config is called with: the values a key may
\* carry; a key may also be left out.  "id3_metadata.tracknumber" is the
\* key tracknumber of the id3_metadata object.
ConfigValues ==
  [ artist |-> { PyStr(<< "A" >>), PyStr(<< >>), PyStr(<< " " >>),
                 PyStr(<< "A", ":" >>), PyInt(7) },
    title |-> { PyStr(<< "T" >>), PyInt(7) },
    bpm |-> { PyInt(0), PyInt(1), PyInt(301), PyStr(<< "x" >>),
              PyBool(TRUE) },
    source_audio_dir |-> { PyStr(<< "i", "n" >>), PyInt(5) },
    release_dir |-> { PyStr(<< "/", "o" >>) },
    id3_metadata |-> { PyStr(<< "x" >>), PyDict } ]

TrackNumbers ==
  { PyStr(<< "1" >>), PyStr(<< "1", "/", "5" >>),
    PyStr(<< "1", "/", "5", "/", "1" >>), PyStr(<< "x" >>),
    PyStr(<< "1", "/" >>), PyFloat }

\* one toggle at most is present, as a bool or as the string "true"
ToggleValues == { PyBool(TRUE), PyStr(<< "t", "r", "u", "e" >>) }

\* a key that is left out
Absent == [type |-> "absent", str |-> << >>, num |-> 0]

ValidateConfigs ==
  { [k \in { k \in DOMAIN r : r[k] /= Absent } |-> r[k]] :
      r \in [ artist : ConfigValues.artist \cup {Absent},
              title : ConfigValues.title \cup {Absent},
              bpm : ConfigValues.bpm \cup {Absent},
              source_audio_dir : ConfigValues.source_audio_dir \cup {Absent},
              release_dir : ConfigValues.release_dir \cup {Absent},
              id3_metadata : ConfigValues.id3_metadata \cup {Absent} ] }

\* dict with one more key
With(dict, key, value) == DictMerge(dict, [k \in {key} |-> value])

\* required_fields: artist and title are there, are str and are not blank
required_errors(cfg) ==
  LET check(field) ==
        IF field \notin DOMAIN cfg THEN << << "missing", field >> >>
        ELSE IF ~isinstance(cfg[field], "str")
             THEN << << "type", field >> >>
        ELSE IF ~truth(cfg[field]) \/ IsBlank(cfg[field].str)
             THEN << << "empty", field >> >>
        ELSE << >>
  IN  check("artist") \o check("title")

\* the loop over type_checks, in the order of the dict
type_errors(cfg) ==
  LET order == << "bpm", "explicit", "organize_stems", "tag_stems",
                  "tag_audio", "validate_cover", "validate_compliance",
                  "strict_mode", "overwrite_existing" >>
      check(field) ==
        IF field \in DOMAIN cfg /\ ~isinstance(cfg[field], TypeChecks[field])
        THEN << << "type", field >> >> ELSE << >>
      RECURSIVE loop(_)
      loop(i) == IF i > Len(order) THEN << >>
                 ELSE check(order[i]) \o loop(i + 1)
  IN  loop(1)

\* if "bpm" in config: not an int, or below 1, or above 300
bpm_errors(cfg) ==
  IF "bpm" \in DOMAIN cfg
     /\ (\/ ~isinstance(cfg["bpm"], "int")
         \/ cfg["bpm"].num < 1
         \/ cfg["bpm"].num > 300)
  THEN << << "range", "bpm" >> >> ELSE << >>

\* Path(value) raises TypeError for a value that is no str
PathRaises(cfg, field) ==
  field \in DOMAIN cfg /\ truth(cfg[field]) /\ ~isinstance(cfg[field], "str")

\* the loop over path_fields: a warning for a source directory that does
\* not exist
path_warnings(cfg, exists) ==
  LET check(field) ==
        IF field \in DOMAIN cfg /\ truth(cfg[field])
           /\ field \in {"source_audio_dir", "source_stems_dir"} /\ ~exists
        THEN << << "no_source", field >> >> ELSE << >>
  IN  check("source_audio_dir") \o check("source_stems_dir")
        \o check("release_dir")

\* id3_metadata is a dict; its tracknumber, if a str, is digits or
\* digits/digits
id3_errors(cfg) ==
  IF "id3_metadata" \notin DOMAIN cfg THEN << >>
  ELSE IF ~isinstance(cfg["id3_metadata"], "dict")
       THEN << << "object", "id3_metadata" >> >>
  ELSE IF "id3_metadata.tracknumber" \notin DOMAIN cfg THEN << >>
  ELSE LET tracknum == cfg["id3_metadata.tracknumber"]
           parts == split(tracknum.str, "/")
       IN  IF ~isinstance(tracknum, "str") THEN << >>
           ELSE IF \E i \in 1 .. Len(tracknum.str) : tracknum.str[i] = "/"
                THEN IF \/ Len(parts) /= 2
                        \/ \E i \in 1 .. Len(parts) : ~isdigit(parts[i])
                     THEN << << "format", "id3_metadata.tracknumber" >> >>
                     ELSE << >>
           ELSE IF ~isdigit(tracknum.str)
                THEN << << "format", "id3_metadata.tracknumber" >> >>
                ELSE << >>

\* the warnings after the id3_metadata check: invalid characters in
\* str(artist), str(title); no source_audio_dir; an absolute release_dir
\* whose parent does not exist
late_warnings(cfg, exists) ==
  LET chars(field) ==
        IF field \in DOMAIN cfg
           /\ \E i \in 1 .. Len(cfg[field].str) :
                cfg[field].str[i] \in InvalidChars
        THEN << << "invalid_chars", field >> >> ELSE << >>
  IN  chars("artist") \o chars("title")
        \o (IF "source_audio_dir" \notin DOMAIN cfg
            THEN << << "default", "source_audio_dir" >> >> ELSE << >>)
        \o (IF "release_dir" \in DOMAIN cfg /\ truth(cfg["release_dir"])
               /\ cfg["release_dir"].str[1] = "/" /\ ~exists
            THEN << << "no_parent", "release_dir" >> >> ELSE << >>)

ValidateInit ==
  /\ WorkflowIdle
  /\ ProcsIdle
  /\ UnitsIdleBesidesValidate
  /\ lockExists = FALSE
  /\ lockAge = 0
  /\ lockOwner = None
  /\ \E c \in ValidateConfigs :
       \/ vcConfig = c
       \/ \E t \in Toggles, v \in ToggleValues : vcConfig = With(c, t, v)
       \/ /\ "id3_metadata" \in DOMAIN c
          /\ c["id3_metadata"] = PyDict
          /\ \E n \in TrackNumbers :
               vcConfig = With(c, "id3_metadata.tracknumber", n)
  /\ vcDirsExist \in BOOLEAN
  /\ vcErrors = << >>
  /\ vcWarnings = << >>
  /\ vcPc = "required_fields"
  /\ vcResult = None

outsideValidate == << workflowVars, lockVars, procVars, unitsBesidesValidate >>

\* the parts of validate_config that only append to errors
ValidateCollect(at, found, then) ==
  /\ vcPc = at
  /\ vcErrors' = vcErrors \o found
  /\ vcPc' = then
  /\ UNCHANGED << vcConfig, vcDirsExist, vcWarnings, vcResult,
                  outsideValidate >>

ValidateRequired ==
  ValidateCollect("required_fields", required_errors(vcConfig), "type_checks")

ValidateTypes ==
  ValidateCollect("type_checks",
                  type_errors(vcConfig) \o bpm_errors(vcConfig),
                  "path_fields")

\* the loop over path_fields; Path(config[field]) of a value that is no
\* str ends validate_config with TypeError
ValidatePathFields ==
  /\ vcPc = "path_fields"
  /\ IF \E f \in {"source_audio_dir", "source_stems_dir", "release_dir"} :
          PathRaises(vcConfig, f)
     THEN vcResult' = "TypeError" /\ vcPc' = "done" /\ UNCHANGED vcWarnings
     ELSE /\ vcWarnings' = vcWarnings \o path_warnings(vcConfig, vcDirsExist)
          /\ vcPc' = "id3_metadata"
          /\ UNCHANGED vcResult
  /\ UNCHANGED << vcConfig, vcDirsExist, vcErrors, outsideValidate >>

ValidateId3 ==
  ValidateCollect("id3_metadata", id3_errors(vcConfig), "finish")

\* the late warnings; if errors: raise ValueError(...); return True
ValidateFinish ==
  /\ vcPc = "finish"
  /\ vcWarnings' = vcWarnings \o late_warnings(vcConfig, vcDirsExist)
  /\ vcResult' = IF vcErrors /= << >> THEN "ValueError" ELSE "True"
  /\ vcPc' = "done"
  /\ UNCHANGED << vcConfig, vcDirsExist, vcErrors, outsideValidate >>

ValidateNext ==
  \/ ValidateRequired
  \/ ValidateTypes
  \/ ValidatePathFields
  \/ ValidateId3
  \/ ValidateFinish

ValidateSpec == ValidateInit /\ [][ValidateNext]_vars

\* the rules a configuration violates: artist or title missing, of the
\* wrong type or blank; an optional field of the wrong type (bpm an
\* integer, the toggles and explicit booleans, the directories strings);
\* bpm outside 1 .. 300; id3_metadata no object; a tracknumber that is
\* not digits or digits/digits
Violations(cfg) ==
  LET has(f) == f \in DOMAIN cfg
      digits(s) == s /= << >> /\ \A i \in 1 .. Len(s) : s[i] \in {"0", "1", "5"}
      slash(s) == { i \in 1 .. Len(s) : s[i] = "/" }
      wellformed(s) ==
        \/ digits(s)
        \/ \E i \in slash(s) :
             /\ digits(SubSeq(s, 1, i - 1))
             /\ digits(SubSeq(s, i + 1, Len(s)))
  IN  { << "missing", f >> : f \in { f \in {"artist", "title"} : ~has(f) } }
        \cup { << "type", f >> :
                 f \in { f \in {"artist", "title", "source_audio_dir",
                                "source_stems_dir", "release_dir"} :
                           has(f) /\ cfg[f].type /= "str" } }
        \cup { << "empty", f >> :
                 f \in { f \in {"artist", "title"} :
                           /\ has(f) /\ cfg[f].type = "str"
                           /\ \A i \in 1 .. Len(cfg[f].str) :
                                cfg[f].str[i] = " " } }
        \cup { << "type", f >> :
                 f \in { f \in Toggles \cup {"explicit"} :
                           has(f) /\ cfg[f].type /= "bool" } }
        \cup { << "type", f >> :
                 f \in { f \in {"bpm"} : has(f) /\ cfg[f].type /= "int" } }
        \cup { << "range", f >> :
                 f \in { f \in {"bpm"} :
                           /\ has(f) /\ cfg[f].type = "int"
                           /\ (cfg[f].num < 1 \/ cfg[f].num > 300) } }
        \cup { << "object", f >> :
                 f \in { f \in {"id3_metadata"} :
                           has(f) /\ cfg[f].type /= "dict" } }
        \cup { << "format", f >> :
                 f \in { f \in {"id3_metadata.tracknumber"} :
                           /\ has(f)
                           /\ (cfg[f].type /= "str" \/ ~wellformed(cfg[f].str)) } }

\* C21: validate_config returns true when the configuration violates no
\* rule, and otherwise raises one ValueError whose message lists every
\* violation; warnings never make it raise.
C21_AllViolationsReported ==
  vcPc = "done" =>
    IF Violations(vcConfig) = {}
    THEN vcResult = "True"
    ELSE /\ vcResult = "ValueError"
         /\ Violations(vcConfig) \subseteq Range(vcErrors)

\* C22: a toggle that is present with a value that is no boolean makes
\* validate_config raise, whichever of the ten toggles it is.
C22_EveryToggleTypeChecked ==
  vcPc = "done" =>
    \A field \in Toggles \cap DOMAIN vcConfig :
      vcConfig[field].type /= "bool" => vcResult /= "True"

(***************************************************************************)
(* validate_path_safety (SafetySpec).  A path string is its anchor ("/" for *)
(* an absolute path) and its segments; the working directory is /w.  No    *)
(* symbolic links.                                                         *)
(***************************************************************************)
\* longest path, in segments
MaxSegments == 3

\* os.getcwd()
Cwd == << "w" >>

SegmentNames == { "w", "b", "..", "." }

RECURSIVE SeqsUpTo(_, _)
SeqsUpTo(set, n) ==
  IF n = 0 THEN { << >> }
  ELSE LET shorter == SeqsUpTo(set, n - 1)
       IN  shorter \cup { Append(s, x) : s \in shorter, x \in set }

PathStrings(n) ==
  [ anchor : { "", "/" }, segments : SeqsUpTo(SegmentNames, n) ]

\* no base_dir (None) and base_dir=""
NoBase == [ anchor |-> "none", segments |-> << >> ]
EmptyBase == [ anchor |-> "", segments |-> << >> ]

\* Path(path_str).parts: the segments "." are dropped, ".." stays
parts(path_str) == SelectSeq(path_str.segments, LAMBDA s : s /= ".")

\* Path.resolve(): absolute, ".." taken out with the segment before it
\* (the root is its own parent)
RECURSIVE collapse(_, _)
collapse(done, rest) ==
  IF rest = << >> THEN done
  ELSE IF Head(rest) = ".."
       THEN collapse(IF done = << >> THEN << >>
                     ELSE SubSeq(done, 1, Len(done) - 1), Tail(rest))
       ELSE collapse(Append(done, Head(rest)), Tail(rest))

resolve(path_str) ==
  collapse(IF path_str.anchor = "/" THEN << >> ELSE Cwd, parts(path_str))

\* abs_path.relative_to(base_abs) raises ValueError unless base_abs is
\* abs_path or one of its parents
relative_to_raises(abs_path, base_abs) ==
  ~(/\ Len(base_abs) <= Len(abs_path)
    /\ SubSeq(abs_path, 1, Len(base_abs)) = base_abs)

\* if '..' in path.parts
has_traversal_first_only(path_str) ==
  parts(path_str) /= << >> /\ Head(parts(path_str)) = ".."

has_traversal(path_str) ==
  \E i \in 1 .. Len(parts(path_str)) : parts(path_str)[i] = ".."

\* if base_dir: an empty string counts as no base_dir
base_given(base_dir) == base_dir /= NoBase /\ base_dir /= EmptyBase

SafetyInit ==
  /\ WorkflowIdle
  /\ ProcsIdle
  /\ UnitsIdleBesidesSafety
  /\ lockExists = FALSE
  /\ lockAge = 0
  /\ lockOwner = None
  /\ psPath \in PathStrings(MaxSegments)
  /\ psBase \in PathStrings(MaxSegments - 1) \cup { NoBase }
  /\ psAbs = << >>
  /\ psPc = "resolve"
  /\ psResult = None

outsideSafety == << workflowVars, lockVars, procVars, unitsBesidesSafety >>

\* abs_path = path.resolve()
SafetyResolve ==
  /\ psPc = "resolve"
  /\ psAbs' = resolve(psPath)
  /\ psPc' = "traversal"
  /\ UNCHANGED << psPath, psBase, psResult, outsideSafety >>

\* if '..' in path.parts: raise ValueError
SafetyTraversal ==
  /\ psPc = "traversal"
  /\ IF has_traversal(psPath)
     THEN psResult' = "ValueError" /\ psPc' = "done"
     ELSE psPc' = "base_dir" /\ UNCHANGED psResult
  /\ UNCHANGED << psPath, psBase, psAbs, outsideSafety >>

\* if base_dir: ... ; return abs_path
SafetyBase ==
  /\ psPc = "base_dir"
  /\ psResult' = IF /\ base_given(psBase)
                    /\ relative_to_raises(psAbs, resolve(psBase))
                 THEN "ValueError" ELSE "return"
  /\ psPc' = "done"
  /\ UNCHANGED << psPath, psBase, psAbs, outsideSafety >>

SafetyNext == SafetyResolve \/ SafetyTraversal \/ SafetyBase

SafetySpec == SafetyInit /\ [][SafetyNext]_vars

\* the absolute path a path string names: the working directory for a
\* relative path, then segment by segment, "." staying in place and ".."
\* going to the parent
RECURSIVE Walk(_, _)
Walk(at, segments) ==
  IF segments = << >> THEN at
  ELSE Walk(CASE Head(segments) = "." -> at
              [] Head(segments) = ".." /\ at = << >> -> at
              [] Head(segments) = ".." /\ at /= << >> ->
                   SubSeq(at, 1, Len(at) - 1)
              [] OTHER -> Append(at, Head(segments)),
            Tail(segments))

AbsoluteOf(path_str) ==
  Walk(IF path_str.anchor = "/" THEN << >> ELSE Cwd, path_str.segments)

IsUnder(abs_path, base_abs) ==
  /\ Len(base_abs) <= Len(abs_path)
  /\ \A i \in 1 .. Len(base_abs) : abs_path[i] = base_abs[i]

MaxRuns == 2

\* the config objects: the keys bpm, language, genre, tag_audio,
\* validate_compliance, and id3_metadata (has_id3) with the keys comment
\* and title; a value is a sequence of words
FrameConfigs ==
  [ top : { [k \in ks |-> << k >>] : ks \in SUBSET {"bpm", "language", "genre"} },
    tag_audio : BOOLEAN,
    validate_compliance : BOOLEAN,
    has_id3 : BOOLEAN,
    id3 : { [k \in ks |-> << k >>] : ks \in SUBSET {"comment", "title"} } ]

\* dict.setdefault(key, value)
setdefault(dict, key, value) ==
  IF key \in DOMAIN dict THEN dict ELSE DictMerge(dict, [k \in {key} |-> value])

\* metadata = config.get("id3_metadata", {}): the dict of the config
\* itself when the key is there, a new dict otherwise
id3_of(cfg) == IF cfg.has_id3 THEN cfg.id3 ELSE [k \in {} |-> << >>]

\* what is done to metadata is done to config["id3_metadata"] when
\* metadata is that dict
aliased(cfg, metadata) ==
  IF cfg.has_id3 THEN [cfg EXCEPT !.id3 = metadata] ELSE cfg

\* step 5: the defaults put into metadata before tag_audio_file
tag_audio_metadata(cfg, version) ==
  LET m1 == setdefault(setdefault(setdefault(id3_of(cfg),
              "title", << "T" >>), "artist", << "A" >>),
              "publisher", << "Independent" >>)
      m2 == setdefault(m1, "album_artist", << "A" >>)
      m3 == IF "bpm" \in DOMAIN cfg.top
            THEN setdefault(m2, "bpm", cfg.top["bpm"]) ELSE m2
      m4 == IF "language" \in DOMAIN cfg.top /\ "language" \notin DOMAIN m3
            THEN DictMerge(m3, [language |-> cfg.top["language"],
                                language_code |-> << "eng" >>])
            ELSE m3
      comment == IF "comment" \in DOMAIN m4 THEN m4["comment"] ELSE << >>
  IN  IF version
      THEN DictMerge(m4, [comment |-> comment \o << "AI-generated with Suno" >>])
      ELSE m4

\* step 7: the defaults put into metadata before the compliance check
compliance_metadata(cfg) ==
  setdefault(setdefault(setdefault(id3_of(cfg),
    "title", << "T" >>), "artist", << "A" >>),
    "genre", IF "genre" \in DOMAIN cfg.top THEN cfg.top["genre"] ELSE << >>)

FrameInit ==
  /\ WorkflowIdle
  /\ ProcsIdle
  /\ UnitsIdleBesidesFrame
  /\ lockExists = FALSE
  /\ lockAge = 0
  /\ lockOwner = None
  /\ cfConfig \in FrameConfigs
  /\ ~cfConfig.has_id3 => cfConfig.id3 = [k \in {} |-> << >>]
  /\ cfVersion \in BOOLEAN
  /\ cfAudio \in BOOLEAN
  /\ cfPc = "tag_audio"
  /\ cfRuns = 1
  /\ cfTagged = << >>

outsideFrame == << workflowVars, lockVars, procVars, unitsBesidesFrame >>

\* step 5: if config.get("tag_audio", True) and the audio file exists
FrameTagAudio ==
  /\ cfPc = "tag_audio"
  /\ IF cfConfig.tag_audio /\ cfAudio
     THEN LET metadata == tag_audio_metadata(cfConfig, cfVersion)
          IN  /\ cfConfig' = aliased(cfConfig, metadata)
              /\ cfTagged' = Append(cfTagged, metadata)
     ELSE UNCHANGED << cfConfig, cfTagged >>
  /\ cfPc' = "validate_compliance"
  /\ UNCHANGED << cfVersion, cfAudio, cfRuns, outsideFrame >>

\* step 7: if config.get("validate_compliance", True)
FrameCompliance ==
  /\ cfPc = "validate_compliance"
  /\ cfConfig' = IF cfConfig.validate_compliance
                 THEN aliased(cfConfig, compliance_metadata(cfConfig))
                 ELSE cfConfig
  /\ cfPc' = "returned"
  /\ UNCHANGED << cfVersion, cfAudio, cfRuns, cfTagged, outsideFrame >>

\* the caller runs the workflow again with the same object
FrameRunAgain ==
  /\ cfPc = "returned"
  /\ cfRuns < MaxRuns
  /\ cfRuns' = cfRuns + 1
  /\ cfPc' = "tag_audio"
  /\ UNCHANGED << cfConfig, cfVersion, cfAudio, cfTagged, outsideFrame >>

FrameNext == FrameTagAudio \/ FrameCompliance \/ FrameRunAgain

FrameSpec == FrameInit /\ [][FrameNext]_vars

\* C24: no step of run_release_workflow changes the config object, its
\* id3_metadata included, and two runs with the same object give
\* tag_audio_file the same metadata (the same comment).
C24_ConfigUnchanged ==
  [][/\ cfConfig' = cfConfig
     /\ Len(cfTagged') >= 2 => cfTagged'[2] = cfTagged'[1]]_vars

(***************************************************************************)
(* sanitize_filename (SanitizeSpec).  A name is a sequence of characters.  *)
(***************************************************************************)
\* max_length
max_length == 200

\* longest tail of a name, in characters
MaxTail == 2

\* the names: a head, a run of the letter a, a tail
NameHeads ==
  { << >>, << "C", "O", "N" >>, << "c", "o", "n", "." >>,
    << "C", "O", "N", "." >>, << "." >>, << " " >>, << ":" >> }

FillLengths == { 0, 1 } \cup (max_length - 4 .. max_length)

Names ==
  { head \o [i \in 1 .. n |-> "a"] \o tail :
      head \in NameHeads, n \in FillLengths,
      tail \in SeqsUpTo({ "a", ".", " ", ":" }, MaxTail) }

\* "Unknown"
Unknown == << "U", "n", "k", "n", "o", "w", "n" >>

\* sanitized.replace(char, "_") for every char of invalid_chars
replace_invalid(chars) ==
  [i \in 1 .. Len(chars) |->
     IF chars[i] \in InvalidChars THEN "_" ELSE chars[i]]

\* sanitized.strip(". ")
RECURSIVE strip(_, _)
strip(chars, set) ==
  IF chars = << >> THEN chars
  ELSE IF Head(chars) \in set THEN strip(Tail(chars), set)
  ELSE IF chars[Len(chars)] \in set
       THEN strip(SubSeq(chars, 1, Len(chars) - 1), set)
  ELSE chars

\* str.upper() for the letters of the model
upper(chars) ==
  LET up == [c |-> "C", o |-> "O", n |-> "N", a |-> "A"]
  IN  [i \in 1 .. Len(chars) |->
         IF chars[i] \in DOMAIN up THEN up[chars[i]] ELSE chars[i]]

\* sanitized.rsplit('.', 1)[0] if '.' in sanitized else sanitized
before_last_dot(chars) ==
  LET dots == { i \in 1 .. Len(chars) : chars[i] = "." }
  IN  IF dots = {} THEN chars
      ELSE SubSeq(chars, 1, (CHOOSE i \in dots : \A j \in dots : j <= i) - 1)

\* reserved_names
reserved_names ==
  { << "C", "O", "N" >>, << "P", "R", "N" >>, << "A", "U", "X" >>,
    << "N", "U", "L" >> }
    \cup { << "C", "O", "M", d >> :
             d \in { "1", "2", "3", "4", "5", "6", "7", "8", "9" } }
    \cup { << "L", "P", "T", d >> :
             d \in { "1", "2", "3", "4", "5", "6", "7", "8", "9" } }

\* the name is prefixed with "_" if its base is a reserved name
prefix_reserved(chars) ==
  IF upper(before_last_dot(chars)) \in reserved_names
  THEN << "_" >> \o chars ELSE chars

\* sanitized[:max_length]
truncate(chars) ==
  IF Len(chars) > max_length THEN SubSeq(chars, 1, max_length) ELSE chars

SanitizeInit ==
  /\ WorkflowIdle
  /\ ProcsIdle
  /\ UnitsIdleBesidesSanitize
  /\ lockExists = FALSE
  /\ lockAge = 0
  /\ lockOwner = None
  /\ snName \in Names
  /\ snSanitized = << >>
  /\ snPc = "not_name"

outsideSanitize == << workflowVars, lockVars, procVars, unitsBesidesSanitize >>

\* one statement of sanitize_filename
SanitizeStep(at, value, then) ==
  /\ snPc = at
  /\ snSanitized' = value
  /\ snPc' = then
  /\ UNCHANGED << snName, outsideSanitize >>

\* if not name: return "Unknown"; sanitized = name
SanitizeEmpty ==
  IF snName = << >>
  THEN SanitizeStep("not_name", Unknown, "returned")
  ELSE SanitizeStep("not_name", snName, "replace")

SanitizeReplace ==
  SanitizeStep("replace", replace_invalid(snSanitized), "strip")

SanitizeStrip ==
  SanitizeStep("strip", strip(snSanitized, { ".", " " }), "reserved")

SanitizeReserved ==
  SanitizeStep("reserved", prefix_reserved(snSanitized), "max_length")

SanitizeTruncate ==
  SanitizeStep("max_length", truncate(snSanitized), "not_sanitized")

\* if not sanitized: sanitized = "Unknown"; return sanitized
SanitizeReturn ==
  SanitizeStep("not_sanitized",
               IF snSanitized = << >> THEN Unknown ELSE snSanitized,
               "returned")

SanitizeNext ==
  \/ SanitizeEmpty
  \/ SanitizeReplace
  \/ SanitizeStrip
  \/ SanitizeReserved
  \/ SanitizeTruncate
  \/ SanitizeReturn

SanitizeSpec == SanitizeInit /\ [][SanitizeNext]_vars

\* C25: what sanitize_filename returns is not empty, has at most 200
\* characters, none of < > : " / \ | ? *, no dot or space at either end,
\* and the part before its last dot is no reserved device name in any
\* letter case.
C25_SanitizedIsSafe ==
  snPc = "returned" =>
    /\ snSanitized /= << >>
    /\ Len(snSanitized) <= 200
    /\ \A i \in 1 .. Len(snSanitized) :
         snSanitized[i] \notin { "<", ">", ":", "\"", "/", "\\", "|", "?", "*" }
    /\ snSanitized[1] \notin { ".", " " }
    /\ snSanitized[Len(snSanitized)] \notin { ".", " " }
    /\ upper(before_last_dot(snSanitized)) \notin reserved_names

(***************************************************************************)
(* Reclaim of a stale lock file under contention (ReclaimSpec).  The lock  *)
(* file was left behind by a workflow that is gone; the processes of the   *)
(* model call acquire_workflow_lock on its release directory.  The locks   *)
(* they create stay younger than the staleness age.                        *)
(***************************************************************************)
ReclaimInit ==
  /\ WorkflowIdle
  /\ ProcsIdle
  /\ UnitsIdle
  /\ lockExists = TRUE
  /\ lockAge = StaleAge + 1
  /\ lockOwner = None

ReclaimNext ==
  \/ \E p \in Procs : StartAcquire(p)
  \/ \E p \in Procs : OpenExclusive(p)
  \/ \E p \in Procs : StatLock(p)
  \/ \E p \in Procs : UnlinkStale(p)
  \/ \E p \in Procs : ReopenExclusive(p)
  \/ \E p \in Procs : ReleaseExists(p)
  \/ \E p \in Procs : ReleaseUnlink(p)
  \/ TickFresh

ReclaimSpec == ReclaimInit /\ [][ReclaimNext]_vars

\* C26: of the processes that call acquire_workflow_lock while a stale
\* lock file exists, at most one has returned as holder and not yet
\* released.
C26_OneHolderAfterReclaim == Cardinality(Holders) <= 1

(***************************************************************************)
(* Strict mode (Spec)                                                      *)
(***************************************************************************)
\* the steps whose failure ends a strict run at once
StrictSteps ==
  { "RenameAudio", "OrganizeStems", "TagStems", "TagAudio", "ValidateCover" }

\* the failure of the step reached the code that consults strict_mode
FailureHandled(step) ==
  IF step = "RenameAudio" THEN renameStatus = "failed"
  ELSE step \in failedSteps

\* C27: when strict_mode is true and the run has returned false after the
\* failure of rename audio, organize stems, tag stems, tag audio or cover
\* validation, no step that follows the failing step in the order was
\* executed and no metadata manifest was written.
C27_StrictReturnIsImmediate ==
  \A step \in StrictSteps :
    ( /\ config.strict_mode
      /\ pc \in { "finally", "done" }
      /\ result = "false"
      /\ FailureHandled(step) )
    => /\ \A later \in Range(steps) : StepIndex(later) <= StepIndex(step)
       /\ "save_release_metadata" \notin Range(calls)
       /\ ~metadataWritten

\* a strict run that executed steps before tag audio failed and returned
C27_Witness ==
  /\ config.strict_mode
  /\ pc = "done"
  /\ result = "false"
  /\ FailureHandled("TagAudio")
  /\ "RenameAudio" \in Range(steps)
  /\ config.validate_compliance

(***************************************************************************)
(* The clipping fix of the compliance step (Spec)                          *)
(***************************************************************************)
\* the positions of a call in the calls of the run
CallsOf(name) == { i \in 1 .. Len(calls) : calls[i] = name }

\* the fix is invoked at most once, and only with auto_fix_clipping
FixAtMostOnce ==
  /\ Cardinality(CallsOf("fix_clipping_ffmpeg")) <= 1
  /\ Cardinality(CallsOf("fix_clipping_ffmpeg")) = fixCalls
  /\ fixCalls > 0 => config.auto_fix_clipping

\* after the preliminary validation and the fix attempt, if any, there is
\* exactly one full_compliance_check
FullCheckOnceAfterFix ==
  \A i \in CallsOf("validate_audio_file") :
    /\ Cardinality(CallsOf("full_compliance_check")) = 1
    /\ \A k \in CallsOf("full_compliance_check") :
         /\ i < k
         /\ \A j \in CallsOf("fix_clipping_ffmpeg") : i < j /\ j < k

\* a run with a failed fix returns false
FailedFixReturnsFalse ==
  (Finished /\ "Auto-fix clipping failed" \in Range(workflow_errors))
    => result = "false"

\* C28: the clipping fix is invoked at most once per run and only with
\* auto_fix_clipping enabled; after the preliminary validation, whether the
\* fix was skipped, succeeded or failed, full_compliance_check is invoked
\* exactly once and after the fix; a run whose fix failed returns false.
C28_ClippingFix ==
  /\ FixAtMostOnce
  /\ FullCheckOnceAfterFix
  /\ FailedFixReturnsFalse

(***************************************************************************)
(* Ownership of the lock file while its workflow runs (StaleLockSpec)      *)
(***************************************************************************)
\* process p has acquired the lock file that exists and has not yet
\* started to release it
RunningOwner(p) ==
  /\ lpc[p] = "holding"
  /\ lheld[p]
  /\ lockExists
  /\ lockOwner = p

\* C29: no step of another process deletes or replaces the lock file of a
\* workflow that is still running, however old the file has become.
C29_RunningLockKept ==
  [][\A p \in Procs :
       RunningOwner(p) => (lockExists' /\ lockOwner' = p)]_vars

(***************************************************************************)
(* A run that finds a fresh lock of another workflow (Spec)                *)
(***************************************************************************)
\* acquire_workflow_lock was called while a lock file of at most the
\* staleness age existed
FoundFreshLock ==
  /\ lockSeen.made
  /\ lockSeen.exists
  /\ lockSeen.age <= 3600

\* C30: a run whose acquire_workflow_lock finds the fresh lock file of
\* another workflow raises the concurrency error out of that call, holds
\* no lock path, executes no step, and neither the call nor the finally
\* clause deletes or changes the file: it still exists, with the same
\* owner and the same age.
C30_HolderKeepsLock ==
  FoundFreshLock =>
    /\ result = "raise"
    /\ raisedIn = "acquire_workflow_lock"
    /\ lock_file = None
    /\ steps = << >>
    /\ lockExists
    /\ lockOwner = "other"
    /\ lockAge = lockSeen.age

\* the run has ended, finally clause included, and the other workflow's
\* lock file is in place
C30_Witness ==
  /\ Finished
  /\ FoundFreshLock
  /\ lockExists
  /\ lockOwner = "other"

====
